---- MODULE Spec2Model ----
(***************************************************************************)
(* State-machine model of the OeBB train proxy.  The repository holds      *)
(* several iterations of the same service; one of them is deployed at a    *)
(* time (variable "variant"):                                              *)
(*   "scraper"  src/unnamed/part_000  multi-strategy scraper, gate flag    *)
(*   "hafas"    src/server.js 242-520 oebb-hafas client with a cache       *)
(*   "v3"       src/server.js 521-948 "real-time" proxy with a cache       *)
(*   "client"   src/server.js 131-240 hafas-client with a cache            *)
(* The first iteration (src/server.js 1-130, a static timetable) keeps no  *)
(* state; its getNextTrains is modelled among the functions called alone.  *)
(* A step of the model is the code of one request from one await to the    *)
(* next: what an event starts (a request, a network answer, a timer) or    *)
(* one promise job.  Strings containing the letter o-umlaut are written    *)
(* with "oe".                                                              *)
(***************************************************************************)
EXTENDS Integers, Sequences, FiniteSets, TLC

VARIABLES
  variant,               \* which iteration of the service is deployed
  clock,                 \* Date.now(): ms since local midnight of day 0
  ticks,                 \* number of clock advances so far (bounded)
  hafas,                 \* oebb-hafas: TRUE iff the client initialised
  isScrapingInProgress,  \* scraper: the single-flight gate flag
  cache,                 \* cached variants: route key -> cache entry
  req                    \* request slot -> state of the request in it

vars == <<variant, clock, ticks, hafas, isScrapingInProgress, cache, req>>

(***************************************************************************)
(* Bounds of the model.                                                    *)
(***************************************************************************)
TickMs == 150000
ShortTickMs == 60000
MaxTicks == 2

\* Clock readings at start-up: 08:00 (rush hour) and, where the variant has a
\* timetable, 21:40 (one or two departures left today).
\* The v3 variant, which keeps a generated schedule for 90 seconds, also
\* starts at 08:11:30, half a minute before the 08:12 from St. Poelten.
StartTimes(v) ==
  IF v \in {"hafas", "client"} THEN { 8 * 3600000 }
  ELSE IF v = "v3"
  THEN { 8 * 3600000, 8 * 3600000 + 11 * 60000 + 30000, 21 * 3600000 + 40 * 60000 }
  ELSE { 8 * 3600000, 21 * 3600000 + 40 * 60000 }

\* Sample outcomes of the calls to Math.random() made for the three legs of
\* one synthetic schedule: for leg i, RandomStreams[..][i][1] is the draw
\* compared with the threshold and [2] the draw scaled to a delay, both in
\* hundredths (0..99 stands for 0.00..0.99).
RandomStreams ==
  { << <<0, 0>>, <<0, 0>>, <<0, 0>> >>,
    << <<90, 0>>, <<50, 0>>, <<99, 99>> >> }

(***************************************************************************)
(* Clock and time-of-day formatting.                                       *)
(***************************************************************************)
getHours(t) == (t \div 3600000) % 24
getMinutes(t) == (t \div 60000) % 60

Min(a, b) == IF a < b THEN a ELSE b

Digits == <<"0", "1", "2", "3", "4", "5", "6", "7", "8", "9">>

\* n.toString().padStart(2, '0') as a sequence of characters
PadStart2(n) ==
  IF n < 10 THEN <<"0", Digits[n + 1]>>
  ELSE IF n < 100 THEN <<Digits[(n \div 10) + 1], Digits[(n % 10) + 1]>>
  ELSE <<Digits[(n \div 100) + 1], Digits[((n \div 10) % 10) + 1], Digits[(n % 10) + 1]>>

\* `${hh}:${mm}`
TimeString(h, m) == PadStart2(h) \o <<":">> \o PadStart2(m)

(***************************************************************************)
(* Text that the code inspects or builds is a sequence of characters.      *)
(***************************************************************************)
UpperCase == <<"A","B","C","D","E","F","G","H","I","J","K","L","M",
               "N","O","P","Q","R","S","T","U","V","W","X","Y","Z">>
LowerCase == <<"a","b","c","d","e","f","g","h","i","j","k","l","m",
               "n","o","p","q","r","s","t","u","v","w","x","y","z">>

\* String.prototype.toLowerCase: the letters A to Z and the umlaut, written
\* "OE" (capital) and "oe" (small) as one character each
toLowerCase(s) ==
  [i \in 1..Len(s) |->
     IF \E k \in 1..26 : UpperCase[k] = s[i]
     THEN LowerCase[CHOOSE k \in 1..26 : UpperCase[k] = s[i]]
     ELSE IF s[i] = "OE" THEN "oe" ELSE s[i]]

includes(s, sub) ==
  \E i \in 1..(Len(s) - Len(sub) + 1) : SubSeq(s, i, i + Len(sub) - 1) = sub

RECURSIVE toString(_)
\* Number.prototype.toString() of a natural number
toString(n) ==
  IF n < 10 THEN <<Digits[n + 1]>>
  ELSE Append(toString(n \div 10), Digits[(n % 10) + 1])

\* Math.round(a / b) for b > 0: the nearest integer, ties towards +infinity
MathRound(a, b) == (2 * a + b) \div (2 * b)

\* `a || b` on text: the empty text stands for an absent or empty value
orElse(a, b) == IF a # << >> THEN a ELSE b

(***************************************************************************)
(* Scraper variant: the hardcoded timetables of getEmergencyFallback.      *)
(***************************************************************************)
ScheduleStpLinz ==
  << [hour |-> 5, minute |-> 42, type |-> "RJ", number |-> "RJ 540", duration |-> 71, platform |-> "2"],
     [hour |-> 6, minute |-> 42, type |-> "RJ", number |-> "RJ 542", duration |-> 71, platform |-> "2"],
     [hour |-> 7, minute |-> 12, type |-> "WB", number |-> "WB 8640", duration |-> 68, platform |-> "1"],
     [hour |-> 7, minute |-> 42, type |-> "RJ", number |-> "RJ 544", duration |-> 71, platform |-> "2"],
     [hour |-> 8, minute |-> 12, type |-> "WB", number |-> "WB 8642", duration |-> 68, platform |-> "1"],
     [hour |-> 8, minute |-> 42, type |-> "RJ", number |-> "RJ 546", duration |-> 71, platform |-> "2"],
     [hour |-> 9, minute |-> 12, type |-> "WB", number |-> "WB 8644", duration |-> 68, platform |-> "1"],
     [hour |-> 9, minute |-> 42, type |-> "RJ", number |-> "RJ 548", duration |-> 71, platform |-> "2"],
     [hour |-> 10, minute |-> 12, type |-> "WB", number |-> "WB 8646", duration |-> 68, platform |-> "1"],
     [hour |-> 10, minute |-> 42, type |-> "RJ", number |-> "RJ 550", duration |-> 71, platform |-> "2"],
     [hour |-> 11, minute |-> 12, type |-> "WB", number |-> "WB 8648", duration |-> 68, platform |-> "1"],
     [hour |-> 11, minute |-> 42, type |-> "RJ", number |-> "RJ 552", duration |-> 71, platform |-> "2"],
     [hour |-> 12, minute |-> 12, type |-> "WB", number |-> "WB 8650", duration |-> 68, platform |-> "1"],
     [hour |-> 12, minute |-> 42, type |-> "RJ", number |-> "RJ 554", duration |-> 71, platform |-> "2"],
     [hour |-> 13, minute |-> 12, type |-> "WB", number |-> "WB 8652", duration |-> 68, platform |-> "1"],
     [hour |-> 13, minute |-> 42, type |-> "RJ", number |-> "RJ 556", duration |-> 71, platform |-> "2"],
     [hour |-> 14, minute |-> 12, type |-> "WB", number |-> "WB 8654", duration |-> 68, platform |-> "1"],
     [hour |-> 14, minute |-> 42, type |-> "RJ", number |-> "RJ 558", duration |-> 71, platform |-> "2"],
     [hour |-> 15, minute |-> 12, type |-> "WB", number |-> "WB 8656", duration |-> 68, platform |-> "1"],
     [hour |-> 15, minute |-> 42, type |-> "RJ", number |-> "RJ 560", duration |-> 71, platform |-> "2"],
     [hour |-> 16, minute |-> 12, type |-> "WB", number |-> "WB 8658", duration |-> 68, platform |-> "1"],
     [hour |-> 16, minute |-> 42, type |-> "RJ", number |-> "RJ 562", duration |-> 71, platform |-> "2"],
     [hour |-> 17, minute |-> 12, type |-> "WB", number |-> "WB 8660", duration |-> 68, platform |-> "1"],
     [hour |-> 17, minute |-> 42, type |-> "RJ", number |-> "RJ 564", duration |-> 71, platform |-> "2"],
     [hour |-> 18, minute |-> 12, type |-> "WB", number |-> "WB 8662", duration |-> 68, platform |-> "1"],
     [hour |-> 18, minute |-> 42, type |-> "RJ", number |-> "RJ 566", duration |-> 71, platform |-> "2"],
     [hour |-> 19, minute |-> 12, type |-> "WB", number |-> "WB 8664", duration |-> 68, platform |-> "1"],
     [hour |-> 19, minute |-> 42, type |-> "RJ", number |-> "RJ 568", duration |-> 71, platform |-> "2"],
     [hour |-> 20, minute |-> 12, type |-> "WB", number |-> "WB 8666", duration |-> 68, platform |-> "1"],
     [hour |-> 20, minute |-> 42, type |-> "RJ", number |-> "RJ 570", duration |-> 71, platform |-> "2"],
     [hour |-> 21, minute |-> 12, type |-> "WB", number |-> "WB 8668", duration |-> 68, platform |-> "1"],
     [hour |-> 21, minute |-> 42, type |-> "RJ", number |-> "RJ 572", duration |-> 71, platform |-> "2"] >>

ScheduleLinzStp ==
  << [hour |-> 5, minute |-> 7, type |-> "RJ", number |-> "RJ 541", duration |-> 71, platform |-> "1"],
     [hour |-> 6, minute |-> 7, type |-> "RJ", number |-> "RJ 543", duration |-> 71, platform |-> "1"],
     [hour |-> 6, minute |-> 48, type |-> "WB", number |-> "WB 8641", duration |-> 68, platform |-> "4"],
     [hour |-> 7, minute |-> 7, type |-> "RJ", number |-> "RJ 545", duration |-> 71, platform |-> "1"],
     [hour |-> 7, minute |-> 48, type |-> "WB", number |-> "WB 8643", duration |-> 68, platform |-> "4"],
     [hour |-> 8, minute |-> 7, type |-> "RJ", number |-> "RJ 547", duration |-> 71, platform |-> "1"],
     [hour |-> 8, minute |-> 48, type |-> "WB", number |-> "WB 8645", duration |-> 68, platform |-> "4"],
     [hour |-> 9, minute |-> 7, type |-> "RJ", number |-> "RJ 549", duration |-> 71, platform |-> "1"],
     [hour |-> 9, minute |-> 48, type |-> "WB", number |-> "WB 8647", duration |-> 68, platform |-> "4"],
     [hour |-> 10, minute |-> 7, type |-> "RJ", number |-> "RJ 551", duration |-> 71, platform |-> "1"],
     [hour |-> 10, minute |-> 48, type |-> "WB", number |-> "WB 8649", duration |-> 68, platform |-> "4"],
     [hour |-> 11, minute |-> 7, type |-> "RJ", number |-> "RJ 553", duration |-> 71, platform |-> "1"],
     [hour |-> 11, minute |-> 48, type |-> "WB", number |-> "WB 8651", duration |-> 68, platform |-> "4"],
     [hour |-> 12, minute |-> 7, type |-> "RJ", number |-> "RJ 555", duration |-> 71, platform |-> "1"],
     [hour |-> 12, minute |-> 48, type |-> "WB", number |-> "WB 8653", duration |-> 68, platform |-> "4"],
     [hour |-> 13, minute |-> 7, type |-> "RJ", number |-> "RJ 557", duration |-> 71, platform |-> "1"],
     [hour |-> 13, minute |-> 48, type |-> "WB", number |-> "WB 8655", duration |-> 68, platform |-> "4"],
     [hour |-> 14, minute |-> 7, type |-> "RJ", number |-> "RJ 559", duration |-> 71, platform |-> "1"],
     [hour |-> 14, minute |-> 48, type |-> "WB", number |-> "WB 8657", duration |-> 68, platform |-> "4"],
     [hour |-> 15, minute |-> 7, type |-> "RJ", number |-> "RJ 561", duration |-> 71, platform |-> "1"],
     [hour |-> 15, minute |-> 48, type |-> "WB", number |-> "WB 8659", duration |-> 68, platform |-> "4"],
     [hour |-> 16, minute |-> 7, type |-> "RJ", number |-> "RJ 563", duration |-> 71, platform |-> "1"],
     [hour |-> 16, minute |-> 48, type |-> "WB", number |-> "WB 8661", duration |-> 68, platform |-> "4"],
     [hour |-> 17, minute |-> 7, type |-> "RJ", number |-> "RJ 565", duration |-> 71, platform |-> "1"],
     [hour |-> 17, minute |-> 48, type |-> "WB", number |-> "WB 8663", duration |-> 68, platform |-> "4"],
     [hour |-> 18, minute |-> 7, type |-> "RJ", number |-> "RJ 567", duration |-> 71, platform |-> "1"],
     [hour |-> 18, minute |-> 48, type |-> "WB", number |-> "WB 8665", duration |-> 68, platform |-> "4"],
     [hour |-> 19, minute |-> 7, type |-> "RJ", number |-> "RJ 569", duration |-> 71, platform |-> "1"],
     [hour |-> 19, minute |-> 48, type |-> "WB", number |-> "WB 8667", duration |-> 68, platform |-> "4"],
     [hour |-> 20, minute |-> 7, type |-> "RJ", number |-> "RJ 571", duration |-> 71, platform |-> "1"],
     [hour |-> 20, minute |-> 48, type |-> "WB", number |-> "WB 8669", duration |-> 68, platform |-> "4"],
     [hour |-> 21, minute |-> 7, type |-> "RJ", number |-> "RJ 573", duration |-> 71, platform |-> "1"] >>

schedules(scheduleKey) ==
  IF scheduleKey = <<"St. Poelten", "Linz">> THEN ScheduleStpLinz
  ELSE IF scheduleKey = <<"Linz", "St. Poelten">> THEN ScheduleLinzStp
  ELSE << >>

\* delay drawn for one same-day leg: two calls of Math.random()
\* (variation: the range of the rush hours is used at every hour)
EmergencyDelay_wideRange(currentHour, draw) ==
  LET isRushHour == (currentHour >= 7 /\ currentHour <= 9)
                    \/ (currentHour >= 17 /\ currentHour <= 19)
      delayThreshold == IF isRushHour THEN 70 ELSE 85
  IN  IF draw[1] > delayThreshold THEN ((draw[2] * 12) \div 100) + 1 ELSE 0

EmergencyDelay(currentHour, draw) ==
  LET isRushHour == (currentHour >= 7 /\ currentHour <= 9)
                    \/ (currentHour >= 17 /\ currentHour <= 19)
      delayThreshold == IF isRushHour THEN 70 ELSE 85
  IN  IF draw[1] > delayThreshold
      THEN ((draw[2] * (IF isRushHour THEN 12 ELSE 8)) \div 100) + 1
      ELSE 0

EmergencySameDayLeg(train, currentHour, draw) ==
  LET trainTotalMinutes == train.hour * 60 + train.minute
      arrivalMinutes == (trainTotalMinutes + train.duration) % (24 * 60)
      arrivalHour == arrivalMinutes \div 60
      arrivalMin == arrivalMinutes % 60
      delay == EmergencyDelay(currentHour, draw)
  IN  [ departure |-> TimeString(train.hour, train.minute),
        arrival |-> TimeString(arrivalHour, arrivalMin),
        trainType |-> train.type,
        trainNumber |-> train.number,
        delay |-> delay,
        status |-> IF delay > 0
                   THEN (IF delay <= 5 THEN "slightly-delayed" ELSE "delayed")
                   ELSE "on-time",
        platform |-> train.platform ]

EmergencyNextDayLeg(train) ==
  LET arrivalMinutes == train.hour * 60 + train.minute + train.duration
      arrivalHour == (arrivalMinutes \div 60) % 24
      arrivalMin == arrivalMinutes % 60
  IN  [ departure |-> TimeString(train.hour, train.minute),
        arrival |-> TimeString(arrivalHour, arrivalMin),
        trainType |-> train.type,
        trainNumber |-> train.number,
        delay |-> 0,
        status |-> "scheduled",
        platform |-> train.platform ]

\* (variation: no departures of the next day are added)
getEmergencyFallback_noNextDay(fromStation, toStation, now, rnd) ==
  LET currentHour == getHours(now)
      totalMinutes == currentHour * 60 + getMinutes(now)
      schedule == schedules(<<fromStation, toStation>>)
      later == SelectSeq(schedule,
                 LAMBDA train: train.hour * 60 + train.minute > totalMinutes)
      today == SubSeq(later, 1, Min(3, Len(later)))
  IN  [i \in 1..Len(today) |-> EmergencySameDayLeg(today[i], currentHour, rnd[i])]

\* getEmergencyFallback(fromStation, toStation) called at clock reading now,
\* with the outcomes rnd of its calls to Math.random(): the first 3 entries
\* of the table that depart later today, then entries from the start of the
\* table, as departures of tomorrow, up to 3 legs
getEmergencyFallback(fromStation, toStation, now, rnd) ==
  LET currentHour == getHours(now)
      currentMinute == getMinutes(now)
      totalMinutes == currentHour * 60 + currentMinute
      schedule == schedules(<<fromStation, toStation>>)
      later == SelectSeq(schedule,
                 LAMBDA train: train.hour * 60 + train.minute > totalMinutes)
      nextTrains(today) ==
        [i \in 1..Len(today) |-> EmergencySameDayLeg(today[i], currentHour, rnd[i])]
        \o [i \in 1..Min(3 - Len(today), Len(schedule)) |->
              EmergencyNextDayLeg(schedule[i])]
  IN  CHOOSE legs \in { nextTrains(today) :
                         today \in { SubSeq(later, 1, Min(3, Len(later))) } } : TRUE

(***************************************************************************)
(* JavaScript values: null or an array of legs; a call's way of ending.    *)
(***************************************************************************)
\* ref names the array object by the call that created it and the clock
\* reading at its creation: two arrays are the same object iff their refs
\* are equal
JsNull == [isNull |-> TRUE, ref |-> << >>, items |-> << >>]
JsArray(ref, items) == [isNull |-> FALSE, ref |-> ref, items |-> items]

Return(value) == [kind |-> "return", value |-> value, message |-> ""]
Throw(message) == [kind |-> "throw", value |-> JsNull, message |-> message]

(***************************************************************************)
(* Scraper variant: the parsers.  The regular expressions are those of the *)
(* source text, where every backslash is doubled: `\\b` matches a          *)
(* backslash followed by the letter b, `\\d{1,2}` a backslash followed by  *)
(* one or two letters d, `\\s*` a backslash followed by letters s, `\\+`   *)
(* one or more backslashes and `\\.?` a backslash followed by at most one  *)
(* character that is no line terminator.                                   *)
(***************************************************************************)
BS == "\\"

\* NaN, the result of Number() and parseInt() on text that is no number; it
\* is kept apart from every number the code computes and, like NaN, it is
\* not greater than 0
NaN == -1000000

At(text, p) == IF p \in 1..Len(text) THEN text[p] ELSE ""

StartsAt(text, p, pat) ==
  p >= 1 /\ p + Len(pat) - 1 <= Len(text) /\ SubSeq(text, p, p + Len(pat) - 1) = pat

\* String.prototype.toUpperCase, on the same characters as toLowerCase
toUpperCase(s) ==
  [i \in 1..Len(s) |->
     IF \E k \in 1..26 : LowerCase[k] = s[i]
     THEN UpperCase[CHOOSE k \in 1..26 : LowerCase[k] = s[i]]
     ELSE IF s[i] = "oe" THEN "OE" ELSE s[i]]

\* the characters that `.` of a regular expression does not match: line feed,
\* carriage return, and the line and paragraph separators U+2028 and U+2029
\* (one character each)
LineTerminators == {"\n", "\r", "U+2028", "U+2029"}

RECURSIVE Run(_, _, _)
\* the number of consecutive characters of text from position p on that
\* belong to cs
Run(text, p, cs) ==
  IF p \in 1..Len(text) /\ text[p] \in cs THEN 1 + Run(text, p + 1, cs) ELSE 0

DigitSet == {"0", "1", "2", "3", "4", "5", "6", "7", "8", "9"}

DigitValue(c) == (CHOOSE k \in 1..10 : Digits[k] = c) - 1

RECURSIVE DecimalValue(_)
DecimalValue(s) ==
  IF s = << >> THEN 0
  ELSE 10 * DecimalValue(SubSeq(s, 1, Len(s) - 1)) + DigitValue(s[Len(s)])

\* Number(text) for text without blanks or sign
Number(s) ==
  IF \A i \in 1..Len(s) : s[i] \in DigitSet THEN DecimalValue(s) ELSE NaN

\* parseInt(text) for text without leading blanks or sign
parseInt(s) ==
  LET n == Run(s, 1, DigitSet)
  IN  IF n = 0 THEN NaN ELSE DecimalValue(SubSeq(s, 1, n))

\* n.toString().padStart(2, '0') where n may be NaN
PadStart2Number(n) == IF n = NaN THEN <<"N", "a", "N">> ELSE PadStart2(n)

\* the two forms of text /\\b(\\d{1,2}:\\d{2})\\b/ matches, each with the
\* text of its group
TimePatterns ==
  << [ all |-> <<BS, "b", BS, "d", "d", ":", BS, "d", "d", BS, "b">>,
       group |-> <<BS, "d", "d", ":", BS, "d", "d">> ],
     [ all |-> <<BS, "b", BS, "d", ":", BS, "d", "d", BS, "b">>,
       group |-> <<BS, "d", ":", BS, "d", "d">> ] >>

\* rowText.match(/\\b(\\d{1,2}:\\d{2})\\b/): the leftmost match
matchTime(rowText) ==
  LET at(p) == { k \in 1..2 : StartsAt(rowText, p, TimePatterns[k].all) }
      ps == { p \in 1..Len(rowText) : at(p) # {} }
  IN  IF ps = {} THEN [found |-> FALSE, all |-> << >>, group |-> << >>]
      ELSE LET p == CHOOSE q \in ps : \A o \in ps : q <= o
               k == CHOOSE j \in at(p) : TRUE
           IN  [found |-> TRUE, all |-> TimePatterns[k].all,
                group |-> TimePatterns[k].group]

\* RJX?|ICE?|WB|NJ|REX|D|S|R in the order the expression tries them
TrainAlternatives ==
  << <<"R","J","X">>, <<"R","J">>, <<"I","C","E">>, <<"I","C">>, <<"W","B">>,
     <<"N","J">>, <<"R","E","X">> , <<"D">>, <<"S">>, <<"R">> >>

\* the length of the match of /\\b(RJX?|ICE?|WB|NJ|REX|D|S|R)\\s*(\\d+)?/i
\* that starts at position p of the text (0: none)
trainMatchAt(text, p) ==
  LET alts == { k \in 1..Len(TrainAlternatives) :
                  LET a == TrainAlternatives[k]
                  IN  /\ p + 2 + Len(a) <= Len(text)
                      /\ toUpperCase(SubSeq(text, p + 2, p + 1 + Len(a))) = a
                      /\ text[p + 2 + Len(a)] = BS }
  IN  IF At(text, p) # BS \/ At(text, p + 1) \notin {"b", "B"} \/ alts = {} THEN 0
      ELSE LET k == CHOOSE j \in alts : \A o \in alts : j <= o
               q == p + 2 + Len(TrainAlternatives[k]) + 1
               s == Run(text, q, {"s", "S"})
               d == IF At(text, q + s) = BS THEN Run(text, q + s + 1, {"d", "D"}) ELSE 0
           IN  (q - p) + s + (IF d > 0 THEN 1 + d ELSE 0)

\* rowText.match(...)[0] for the train expression: the text of the leftmost
\* match, or the empty text for null
matchTrain(rowText) ==
  LET ps == { p \in 1..Len(rowText) : trainMatchAt(rowText, p) > 0 }
  IN  IF ps = {} THEN << >>
      ELSE LET p == CHOOSE q \in ps : \A o \in ps : q <= o
           IN  SubSeq(rowText, p, p + trainMatchAt(rowText, p) - 1)

\* /\\s*(\\d+)/i from position q on: the text of the group, or the empty
\* text when it does not match there
delayTailAt(text, q) ==
  LET s == IF At(text, q) = BS THEN Run(text, q + 1, {"s", "S"}) ELSE 0
      g == q + 1 + s
      d == IF At(text, q) = BS /\ At(text, g) = BS
           THEN Run(text, g + 1, {"d", "D"}) ELSE 0
  IN  IF d = 0 THEN << >> ELSE SubSeq(text, g, g + d)

\* rowText.match(/(?:\\+|Vers\\.?)\\s*(\\d+)/i)[1]: the text of the group
\* of the leftmost match, or the empty text for null
matchDelay(rowText) ==
  LET tails(p) ==
        { q \in (p + 1)..Len(rowText) :
            /\ delayTailAt(rowText, q) # << >>
            /\ \/ \A i \in p..(q - 1) : rowText[i] = BS
               \/ /\ toUpperCase(SubSeq(rowText, p, Min(p + 3, Len(rowText))))
                       = <<"V","E","R","S">>
                  /\ At(rowText, p + 4) = BS
                  /\ \/ q = p + 5
                     \/ q = p + 6 /\ At(rowText, p + 5) \notin LineTerminators }
      ps == { p \in 1..Len(rowText) : tails(p) # {} }
  IN  IF ps = {} THEN << >>
      ELSE LET p == CHOOSE o \in ps : \A i \in ps : o <= i
               byRun == { q \in tails(p) : \A i \in p..(q - 1) : rowText[i] = BS }
               q == IF byRun # {}
                    THEN CHOOSE o \in byRun : \A i \in byRun : o >= i
                    ELSE CHOOSE o \in tails(p) : \A i \in tails(p) : o >= i
           IN  delayTailAt(rowText, q)

\* trainName.toString().toUpperCase() and the tests of extractTrainType
\* (variation: the test for RJ comes before the test for RJX)
extractTrainType_rjFirst(trainName) ==
  IF trainName = << >> THEN "Train"
  ELSE LET name == toUpperCase(trainName)
       IN  IF includes(name, <<"R","J">>) THEN "RJ"
           ELSE IF includes(name, <<"R","J","X">>) THEN "RJX"
           ELSE IF includes(name, <<"I","C","E">>) THEN "ICE"
           ELSE IF includes(name, <<"I","C"," ">>) \/ StartsAt(name, 1, <<"I","C">>)
                THEN "IC"
           ELSE IF includes(name, <<"W","B">>) THEN "WB"
           ELSE IF includes(name, <<"N","J">>) THEN "NJ"
           ELSE IF includes(name, <<"R","E","X">>) THEN "REX"
           ELSE IF includes(name, <<"D"," ">>) THEN "D"
           ELSE IF includes(name, <<"S"," ">>) THEN "S"
           ELSE IF includes(name, <<"R"," ">>) THEN "R"
           ELSE "Train"

extractTrainType(trainName) ==
  IF trainName = << >> THEN "Train"
  ELSE LET name == toUpperCase(trainName)
       IN  IF includes(name, <<"R","J","X">>) THEN "RJX"
           ELSE IF includes(name, <<"R","J">>) THEN "RJ"
           ELSE IF includes(name, <<"I","C","E">>) THEN "ICE"
           ELSE IF includes(name, <<"I","C"," ">>) \/ StartsAt(name, 1, <<"I","C">>)
                THEN "IC"
           ELSE IF includes(name, <<"W","E","S","T","B","A","H","N">>)
                   \/ includes(name, <<"W","B">>) THEN "WB"
           ELSE IF includes(name, <<"N","I","G","H","T","J","E","T">>)
                   \/ includes(name, <<"N","J">>) THEN "NJ"
           ELSE IF includes(name, <<"R","E","X">>) THEN "REX"
           ELSE IF includes(name, <<"D"," ">>) THEN "D"
           ELSE IF includes(name, <<"S"," ">>) THEN "S"
           ELSE IF includes(name, <<"R"," ">>) THEN "R"
           ELSE "Train"

\* the text before and after the first ':' of depTime
splitColon(depTime) ==
  LET ps == { p \in 1..Len(depTime) : depTime[p] = ":" }
      p == IF ps = {} THEN Len(depTime) + 1 ELSE CHOOSE q \in ps : \A o \in ps : q <= o
  IN  << SubSeq(depTime, 1, p - 1), SubSeq(depTime, p + 1, Len(depTime)) >>

\* the leg both HTML parsers build from a row and the departure text found
\* in it (parseOebbHtml lines 250-278, parseStationBoard lines 321-349)
parsedLeg(rowText, depTime) ==
  LET trainInfo == matchTrain(rowText)
      delayGroup == matchDelay(rowText)
      delay == IF delayGroup # << >> THEN parseInt(delayGroup) ELSE 0
      depHour == Number(splitColon(depTime)[1])
      depMin == Number(splitColon(depTime)[2])
      journeyMinutes == 71
      totalMinutes == IF depHour = NaN \/ depMin = NaN THEN NaN
                      ELSE (depHour * 60 + depMin + journeyMinutes) % (24 * 60)
      arrHour == IF totalMinutes = NaN THEN NaN ELSE totalMinutes \div 60
      arrMin == IF totalMinutes = NaN THEN NaN ELSE totalMinutes % 60
      trainType == IF trainInfo # << >> THEN extractTrainType(trainInfo) ELSE "Train"
  IN  [ departure |-> depTime,
        arrival |-> PadStart2Number(arrHour) \o <<":">> \o PadStart2Number(arrMin),
        trainType |-> trainType,
        trainNumber |-> IF trainInfo # << >> THEN trainInfo
                        ELSE <<"T","r","a","i","n"," ">>
                             \o splitColon(depTime)[1] \o splitColon(depTime)[2],
        delay |-> delay,
        status |-> IF delay > 0
                   THEN (IF delay <= 5 THEN "slightly-delayed" ELSE "delayed")
                   ELSE "on-time",
        platform |-> "?" ]

RECURSIVE parseOebbHtmlRows(_, _, _)
\* the .each() callback of parseOebbHtml on the rows from `index` on
parseOebbHtmlRows(rows, index, trains) ==
  IF index >= Len(rows) THEN trains
  ELSE LET rowText == rows[index + 1]
           m == matchTime(rowText)
       IN  parseOebbHtmlRows(rows, index + 1,
             IF \/ index = 0 \/ Len(trains) >= 3
                \/ rowText = << >>
                \/ includes(rowText, <<"Z","e","i","t">>)
                \/ includes(rowText, <<"D","a","u","e","r">>)
                \/ ~m.found
             THEN trains
             ELSE Append(trains, parsedLeg(rowText, m.all)))

\* parseOebbHtml(html): html is given by the trimmed texts of the rows its
\* selector finds, in document order
parseOebbHtml(html) == parseOebbHtmlRows(html, 0, << >>)

\* /Linz|Wien/i and /St\\.?\\s*P[öo]lten|Wien/i
destinationCheck(destinationStation, rowText) ==
  LET text == toUpperCase(rowText)
  IN  \/ includes(text, <<"W","I","E","N">>)
      \/ IF destinationStation = "Linz"
         THEN includes(text, <<"L","I","N","Z">>)
         ELSE \E p \in 1..Len(text), o \in {0, 1} :
                /\ StartsAt(text, p, <<"S","T",BS>>)
                /\ At(text, p + 3 + o) = BS
                /\ o = 1 => At(text, p + 3) \notin LineTerminators
                /\ LET q == p + 4 + o + Run(text, p + 4 + o, {"S"})
                   IN  \E u \in {"OE", "O"} :
                         StartsAt(text, q, <<"P", u, "L", "T", "E", "N">>)

RECURSIVE parseStationBoardRows(_, _, _, _)
\* the .each() callback of parseStationBoard on the rows from `index` on
parseStationBoardRows(rows, destinationStation, index, trains) ==
  IF index >= Len(rows) THEN trains
  ELSE LET rowText == rows[index + 1]
           m == matchTime(rowText)
       IN  parseStationBoardRows(rows, destinationStation, index + 1,
             IF \/ Len(trains) >= 3
                \/ ~destinationCheck(destinationStation, rowText)
                \/ ~m.found
             THEN trains
             ELSE Append(trains, parsedLeg(rowText, m.group)))

parseStationBoard(html, destinationStation) ==
  parseStationBoardRows(html, destinationStation, 0, << >>)

\* formatMgateTime(timeString); the empty text stands for an absent value
formatMgateTime(timeString) ==
  IF timeString = << >> \/ Len(timeString) < 4 THEN <<"?","?",":","?","?">>
  ELSE SubSeq(timeString, 1, 2) \o <<":">> \o SubSeq(timeString, 3, 4)

\* the leg parseMgateResponse builds from one connection (lines 372-397)
mgateLeg(journey, prodL) ==
  LET firstSection == journey.secL[1]
      product == IF firstSection.dep.prodX + 1 \in 1..Len(prodL)
                 THEN prodL[firstSection.dep.prodX + 1]
                 ELSE [name |-> << >>, nameS |-> << >>]
      trainName == orElse(product.name, orElse(product.nameS, <<"T","r","a","i","n">>))
      depDelay == firstSection.dep.dDelay
      delay == MathRound(depDelay, 60)
  IN  [ departure |-> formatMgateTime(firstSection.dep.dTimeS),
        arrival |-> formatMgateTime(firstSection.arr.aTimeS),
        trainType |-> extractTrainType(trainName),
        trainNumber |-> trainName,
        delay |-> delay,
        status |-> IF delay > 0
                   THEN (IF delay <= 5 THEN "slightly-delayed" ELSE "delayed")
                   ELSE "on-time",
        platform |-> orElse(firstSection.dep.dPlatfS, <<"?">>) ]

\* the try block of parseMgateResponse over the connections `journeys`
\* (lines 370-405): data is given by svcResL[0].res.outConL and
\* svcResL[0].res.common.prodL; in an answer without `common` the field
\* prodL is absent, and reading it for the first connection that has a
\* section throws a TypeError
parseMgateTry(journeys, data) ==
  LET withSection == SelectSeq(journeys, LAMBDA journey : Len(journey.secL) > 0)
  IN  IF withSection # << >> /\ "prodL" \notin DOMAIN data
      THEN Throw("Cannot read properties of undefined (reading 'prodL')")
      ELSE Return([i \in 1..Len(withSection) |-> mgateLeg(withSection[i], data.prodL)])

\* the catch block of a parser: log and `return []`
parserCatch(outcome) == IF outcome.kind = "throw" THEN Return(<< >>) ELSE outcome

\* (variation: every connection of the answer is turned into a leg)
parseMgateResponse_unlimited(data) == parserCatch(parseMgateTry(data.outConL, data))

\* how parseMgateResponse(data) ends: with the list of the legs of the
\* first three connections, or with what its catch block returns
parseMgateResponse(data) ==
  parserCatch(parseMgateTry(SubSeq(data.outConL, 1, Min(3, Len(data.outConL))), data))

(***************************************************************************)
(* Scraper variant: what the upstream answers to one strategy's network    *)
(* call.  "error": axios rejects (network error, timeout, non-2xx status); *)
(* "nodata": a body that fails the strategy's check of it (no 'journey'    *)
(* marker, empty body, no svcResL); "body": a body the strategy hands to   *)
(* its parser, given as the HTML rows and as the mgate answer it holds.    *)
(***************************************************************************)
RowHeader == <<"A","b"," ","Z","e","i","t">>
\* "08:12 RJ 540 Linz"
RowPlain ==
  <<"0","8",":","1","2"," ","R","J"," ","5","4","0"," ","L","i","n","z">>
\* "\b\dd:\dd\b Wien"
RowTime == <<BS,"b",BS,"d","d",":",BS,"d","d",BS,"b"," ","W","i","e","n">>
\* "\b\d:\dd\b \bRJ\s\dd Linz"
RowTimeTrain ==
  <<BS,"b",BS,"d",":",BS,"d","d",BS,"b"," ",BS,"b","R","J",BS,"s",BS,"d","d",
    " ","L","i","n","z">>
\* "\b\dd:\dd\b Vers\.\\d Linz"
RowTimeDelay ==
  <<BS,"b",BS,"d","d",":",BS,"d","d",BS,"b"," ","V","e","r","s",BS,".",BS,BS,"d",
    " ","L","i","n","z">>
\* "Dauer \b\dd:\dd\b"
RowDauer == <<"D","a","u","e","r"," ",BS,"b",BS,"d","d",":",BS,"d","d",BS,"b">>

\* "\b\dd:\dd\b Vers\" line feed "\\d Linz"
RowVersBreak ==
  <<BS,"b",BS,"d","d",":",BS,"d","d",BS,"b"," ","V","e","r","s",BS,"\n",BS,BS,"d",
    " ","L","i","n","z">>
\* "\b\dd:\dd\b St\" line feed "\Poelten"
RowStBreak ==
  <<BS,"b",BS,"d","d",":",BS,"d","d",BS,"b"," ","S","t",BS,"\n",BS,"P","oe","l","t","e","n">>
\* "\b\dd:\dd\b St\.\Poelten"
RowStPoelten ==
  <<BS,"b",BS,"d","d",":",BS,"d","d",BS,"b"," ","S","t",BS,".",BS,"P","oe","l","t","e","n">>

HtmlNone == <<RowHeader, RowPlain, RowPlain>>
HtmlOne == <<RowTime, RowTime>>
HtmlFive == <<RowHeader, RowTimeTrain, RowDauer, RowTimeDelay, RowPlain, RowTime, RowTimeTrain>>
HtmlBreak == <<RowHeader, RowVersBreak, RowStBreak, RowStPoelten>>

MgateSection(dTimeS, aTimeS, dDelay, prodX, dPlatfS) ==
  [ dep |-> [dTimeS |-> dTimeS, dDelay |-> dDelay, prodX |-> prodX, dPlatfS |-> dPlatfS],
    arr |-> [aTimeS |-> aTimeS] ]

MgateProducts ==
  << [name |-> <<"R","J"," ","5","4","0">>, nameS |-> <<"R","J">>],
     [name |-> << >>, nameS |-> <<"W","B">>] >>

MgateNone == [outConL |-> << >>, prodL |-> << >>]
MgateOne ==
  [ outConL |-> << [secL |-> << MgateSection(<<"0","8","1","2","0","0">>,
                                             <<"0","9","2","3","0","0">>, 0, 0, <<"2">>) >>] >>,
    prodL |-> MgateProducts ]
\* 08:12 twenty minutes late, 08:30 two minutes early, 08:50 45 seconds late
MgateFour ==
  [ outConL |->
      << [secL |-> << MgateSection(<<"0","8","1","2","0","0">>,
                                   <<"0","9","2","3","0","0">>, 1200, 0, << >>) >>],
         [secL |-> << MgateSection(<<"0","8","3","0","0","0">>,
                                   <<"0","9","4","1","0","0">>, -120, 1, <<"3">>) >>],
         [secL |-> << MgateSection(<<"0","8","5","0">>,
                                   <<"1","0","0","1">>, 45, 2, <<"1">>) >>],
         [secL |-> << MgateSection(<<"0","9","1","2","0","0">>,
                                   <<"1","0","2","3","0","0">>, 0, 0, <<"2">>) >>] >>,
    prodL |-> MgateProducts ]
\* a connection without sections among the first three
MgateGap ==
  [ outConL |-> << [secL |-> << >>] >> \o MgateFour.outConL, prodL |-> MgateProducts ]

\* an answer with a connection but without the `common` part
MgateNoCommon == [outConL |-> MgateOne.outConL]

Upstream ==
  { [kind |-> "error", html |-> << >>, mgate |-> MgateNone],
    [kind |-> "nodata", html |-> << >>, mgate |-> MgateNone],
    [kind |-> "body", html |-> HtmlNone, mgate |-> MgateNone],
    [kind |-> "body", html |-> HtmlNone, mgate |-> MgateNoCommon],
    [kind |-> "body", html |-> HtmlOne, mgate |-> MgateOne],
    [kind |-> "body", html |-> HtmlFive, mgate |-> MgateFour] }

Strategies == <<"tryPostQuery", "tryStationBoard", "tryMgateEndpoint">>

\* the stations that have an entry in stationIds (lines 119-122, 167-170)
stationIds == {"St. Poelten", "Linz"}
\* `Station ID not found for ${fromStation}` (line 128)
StationIdMessage(fromStation) ==
  CASE fromStation = "St. Poelten" -> "Station ID not found for St. Poelten"
    [] fromStation = "Linz" -> "Station ID not found for Linz"

\* (variation: the catch block throws the error again)
strategyCatch_rethrow(outcome) == outcome

\* the catch block of a strategy: log and `return null`
strategyCatch(outcome) == IF outcome.kind = "throw" THEN Return(JsNull) ELSE outcome

\* the try block of tryPostQuery (lines 56-107): axios rejects, or the body
\* has no 'journey' marker, or the body goes to parseOebbHtml
tryPostQueryTry(u) ==
  CASE u.kind = "error" -> Throw("Request failed")
    [] u.kind = "nodata" -> Return(JsNull)
    [] u.kind = "body" -> Return(JsArray(<<"tryPostQuery">>, parseOebbHtml(u.html)))

\* how tryPostQuery ends for the upstream answer u
tryPostQuery(u) == strategyCatch(tryPostQueryTry(u))

\* the try block of tryStationBoard (lines 116-154): the argument of
\* .replace() in line 132 reads as the regular expression /\\/ divided by an
\* undeclared g; evaluating it throws a ReferenceError before any request is
\* made, whatever the upstream would answer; a station without an entry in
\* stationIds throws before that (lines 127-129)
tryStationBoardTry(fromStation, u) ==
  IF fromStation \notin stationIds THEN Throw(StationIdMessage(fromStation))
  ELSE Throw("g is not defined")

tryStationBoard(fromStation, u) == strategyCatch(tryStationBoardTry(fromStation, u))

\* the try block of tryMgateEndpoint (lines 163-217): axios rejects, or the
\* body has no svcResL, or the body goes to parseMgateResponse
tryMgateEndpointTry(u) ==
  CASE u.kind = "error" -> Throw("Request failed")
    [] u.kind = "nodata" -> Throw("Invalid mgate response structure")
    [] u.kind = "body" ->
         LET parsed == parseMgateResponse(u.mgate)
         IN  IF parsed.kind = "throw" THEN parsed
             ELSE Return(JsArray(<<"tryMgateEndpoint">>, parsed.value))

tryMgateEndpoint(u) == strategyCatch(tryMgateEndpointTry(u))

\* how the call of strategy `name` ends for the upstream answer u
callStrategy(name, station, u) ==
  CASE name = "tryPostQuery" -> tryPostQuery(u)
    [] name = "tryStationBoard" -> tryStationBoard(station, u)
    [] name = "tryMgateEndpoint" -> tryMgateEndpoint(u)

\* (variation: a list of one leg does not count as data)
hasTrains_atLeastTwo(data) == ~data.isNull /\ Len(data.items) > 1

\* `data && data.length > 0`
hasTrains(data) == ~data.isNull /\ Len(data.items) > 0

\* (variation: the mgate endpoint is tried before the station board)
nextStrategy_swapped(name) ==
  CASE name = "tryPostQuery" -> "tryMgateEndpoint"
    [] name = "tryMgateEndpoint" -> "tryStationBoard"
    [] name = "tryStationBoard" -> "none"

\* the strategy scrapeOebbData calls after `name` came back without trains
\* ("none": it throws 'All scraping methods failed')
nextStrategy(name) ==
  CASE name = "tryPostQuery" -> "tryStationBoard"
    [] name = "tryStationBoard" -> "tryMgateEndpoint"
    [] name = "tryMgateEndpoint" -> "none"

\* (variations: the gate is not looked at on entry / after the wait)
busyOnEntry_skipped(gate) == FALSE
busyAfterWait_skipped(gate) == FALSE

\* `if (isScrapingInProgress)` on entry and again after the 2000 ms wait
busyOnEntry(gate) == gate
busyAfterWait(gate) == gate

\* (variations: the gate is cleared before `return` only, or in a catch
\* block only, without finally)
gateAfterTry_leakOnThrow(outcome) == outcome.kind = "throw"
gateAfterTry_leakOnReturn(outcome) == outcome.kind = "return"

\* the gate after the try block was left (finally), whichever way it ended
gateAfterTry(outcome) == FALSE

\* (variation: the busy error is thrown inside the try block, so that
\* finally clears the gate)
gateAfterBusy_cleared(gate) == FALSE

\* the gate after the busy error was thrown (before the try block)
gateAfterBusy(gate) == gate

BusyMessage == "Scraping timeout - already in progress"
AllFailedMessage == "All scraping methods failed"

(***************************************************************************)
(* Scraper variant: the route handlers and /debug/test-scraping.           *)
(***************************************************************************)
ScraperEndpoints == {"stpoelten-linz", "linz-stpoelten", "test-scraping"}

fromStation(endpoint) == IF endpoint = "linz-stpoelten" THEN "Linz" ELSE "St. Poelten"
toStation(endpoint) == IF endpoint = "linz-stpoelten" THEN "St. Poelten" ELSE "Linz"

\* app.get('/trains/...') after scrapeOebbData ended with `outcome`
trainsHandler(endpoint, outcome, now, rnd) ==
  IF outcome.kind = "return" /\ hasTrains(outcome.value)
  THEN [ status |-> 200, route |-> endpoint, trains |-> outcome.value.items,
         source |-> "live-scraping", realTimeData |-> TRUE ]
  ELSE [ status |-> 200, route |-> endpoint,
         trains |-> getEmergencyFallback(fromStation(endpoint), toStation(endpoint), now, rnd),
         source |-> "realistic-fallback", realTimeData |-> FALSE,
         error |-> IF outcome.kind = "throw" THEN outcome.message
                   ELSE "All scraping methods returned no data" ]

\* app.get('/debug/test-scraping') after scrapeOebbData ended with `outcome`
debugHandler(outcome) ==
  IF outcome.kind = "return"
  THEN [ status |-> 200, success |-> TRUE,
         trainsFound |-> IF outcome.value.isNull THEN 0 ELSE Len(outcome.value.items),
         trains |-> outcome.value.items,
         message |-> "Manual scraping test completed" ]
  ELSE [ status |-> 200, success |-> FALSE, error |-> outcome.message,
         message |-> "Manual scraping test failed" ]

scraperHandler(endpoint, outcome, now, rnd) ==
  IF endpoint = "test-scraping" THEN debugHandler(outcome)
  ELSE trainsHandler(endpoint, outcome, now, rnd)

(***************************************************************************)
(* oebb-hafas variant (src/server.js 242-520).                             *)
(***************************************************************************)
CACHE_DURATION == 300000

CacheKeys == {"stpLinz", "linzStp"}

getTrainType(productName) ==
  IF productName = << >> THEN "Train"
  ELSE LET name == toLowerCase(productName)
       IN  IF includes(name, <<"r","j","x">>) THEN "RJX"
           ELSE IF includes(name, <<"r","a","i","l","j","e","t">>)
                   \/ includes(name, <<"r","j">>) THEN "RJ"
           ELSE IF includes(name, <<"i","c","e">>) THEN "ICE"
           ELSE IF includes(name, <<"i","c">>) THEN "IC"
           ELSE IF includes(name, <<"w","e","s","t","b","a","h","n">>)
                   \/ includes(name, <<"w","b">>) THEN "WB"
           ELSE IF includes(name, <<"n","i","g","h","t","j","e","t">>)
                   \/ includes(name, <<"n","j">>) THEN "NJ"
           ELSE IF includes(name, <<"r","e","x">>) THEN "REX"
           ELSE IF includes(name, <<"r","e","g","i","o","n","a","l","z","u","g">>)
                   \/ includes(name, <<"r"," ">>) THEN "R"
           ELSE IF includes(name, <<"s","-","b","a","h","n">>)
                   \/ includes(name, <<"s"," ">>) THEN "S"
           ELSE IF includes(name, <<"d"," ">>)
                   \/ includes(name, <<"s","c","h","n","e","l","l","z","u","g">>) THEN "D"
           ELSE "Train"

\* one journey of the HAFAS answer -> one leg of the response (lines 292-335)
transformHafasJourney(journey) ==
  LET firstLeg == journey.legs[1]
      depTime == TimeString(getHours(firstLeg.departure), getMinutes(firstLeg.departure))
      arrTime == TimeString(getHours(firstLeg.arrival), getMinutes(firstLeg.arrival))
      trainType == getTrainType(orElse(firstLeg.productName,
                                       orElse(firstLeg.lineName, <<"T","r","a","i","n">>)))
      trainNumber == orElse(firstLeg.lineName,
                            orElse(firstLeg.lineId, <<"U","n","k","n","o","w","n">>))
      departureDelay == firstLeg.departureDelay
      delayMinutes == MathRound(departureDelay, 60)
  IN  [ departure |-> depTime,
        arrival |-> arrTime,
        trainType |-> trainType,
        trainNumber |-> trainNumber,
        delay |-> delayMinutes,
        status |-> IF delayMinutes > 0
                   THEN (IF delayMinutes <= 5 THEN "slightly-delayed" ELSE "delayed")
                   ELSE "on-time",
        platform |-> IF firstLeg.departurePlatform # "" THEN firstLeg.departurePlatform
                     ELSE "?" ]

\* Sample answers of hafas.journeys().  A journey is [legs |-> <<leg, ...>>];
\* departure and arrival are instants of the model clock, departureDelay is
\* in seconds (0 also stands for null), absent text is << >>; productType
\* is line.product.type and, like the platforms, "" when the leg has none.
HafasLeg(dep, arr, lineName, productName, productType, delay, platform, arrivalPlatform) ==
  [ departure |-> dep, arrival |-> arr, lineName |-> lineName, lineId |-> << >>,
    productName |-> productName, productType |-> productType,
    departureDelay |-> delay,
    departurePlatform |-> platform, arrivalPlatform |-> arrivalPlatform ]

JourneyA ==
  [legs |-> << HafasLeg(8 * 3600000 + 12 * 60000, 9 * 3600000 + 20 * 60000,
                        <<"W","B"," ","8","6","4","2">>, << >>, "", 0, "1", "5") >>]
JourneyB ==
  [legs |-> << HafasLeg(8 * 3600000 + 42 * 60000, 9 * 3600000 + 53 * 60000,
                        <<"R","J"," ","5","4","6">>, <<"r","a","i","l","j","e","t">>,
                        "train", 420, "2", "3") >>]
JourneyC ==
  [legs |-> << HafasLeg(9 * 3600000 + 12 * 60000, 10 * 3600000 + 20 * 60000,
                        <<"I","C","E"," ","2","2">>, << >>, "train", 90, "", "") >>]
JourneyD ==
  [legs |-> << HafasLeg(9 * 3600000 + 42 * 60000, 10 * 3600000 + 53 * 60000,
                        <<"R","E","X"," ","1","7">>, << >>, "", 0, "3", "1") >>]
\* a departure two minutes early
JourneyE ==
  [legs |-> << HafasLeg(8 * 3600000 + 20 * 60000, 9 * 3600000 + 31 * 60000,
                        <<"R","J","X"," ","1","6","2">>, << >>, "train", -120, "4", "2") >>]
\* a departure more than four hours ahead of 08:00, 45 seconds late
JourneyF ==
  [legs |-> << HafasLeg(12 * 3600000 + 30 * 60000, 13 * 3600000 + 41 * 60000,
                        <<"R","J"," ","5","6","0">>, << >>, "", 45, "2", "") >>]
JourneyNoLegs == [legs |-> << >>]

HafasUpstream ==
  { [kind |-> "error", journeys |-> << >>],
    [kind |-> "journeys", journeys |-> << >>],
    [kind |-> "journeys", journeys |-> <<JourneyE>>],
    [kind |-> "journeys", journeys |-> <<JourneyA, JourneyB, JourneyC, JourneyD>>],
    [kind |-> "journeys", journeys |-> <<JourneyB, JourneyNoLegs>>] }

\* fetchRealTrainData(fromId, toId) after hafas.journeys() answered u;
\* ref names the array it creates
fetchRealTrainData(client, u, ref) ==
  IF ~client THEN Throw("HAFAS client not available")
  ELSE IF u.kind = "error" THEN Throw("upstream error")
  ELSE IF Len(u.journeys) = 0 THEN Throw("No journeys found")
  ELSE LET first3 == SubSeq(u.journeys, 1, Min(3, Len(u.journeys)))
       IN  IF \E i \in 1..Len(first3) : Len(first3[i].legs) = 0
           THEN Throw("TypeError: Cannot read properties of undefined")
           ELSE Return(JsArray(ref, [i \in 1..Len(first3) |->
                                       transformHafasJourney(first3[i])]))

\* getFallbackData(route) called at clock reading now (lines 365-395)
getFallbackData(route, now, ref) ==
  LET currentHour == getHours(now)
      currentMinute == getMinutes(now)
      leg(i) ==
        LET depHour == currentHour + i
            depMinute == currentMinute + (i * 15)
            finalHour == ((depHour * 60 + depMinute) \div 60) % 24
            finalMinute == (depHour * 60 + depMinute) % 60
            arrivalTime == finalHour * 60 + finalMinute + 71
            arrHour == (arrivalTime \div 60) % 24
            arrMin == arrivalTime % 60
        IN  [ departure |-> TimeString(finalHour, finalMinute),
              arrival |-> TimeString(arrHour, arrMin),
              trainType |-> "RJ",
              trainNumber |-> <<"R","J"," ">> \o toString(540 + i * 2),
              delay |-> 0,
              status |-> "scheduled",
              platform |-> IF route = "stpoelten-linz" THEN "2" ELSE "1" ]
  IN  JsArray(ref, [k \in 1..3 |-> leg(k - 1)])

\* (variation: an entry counts as fresh for half of the duration only)
isFresh_halfWindow(entry, now, duration) ==
  ~entry.data.isNull /\ now - entry.timestamp < duration \div 2

\* the cache check that opens getJourneys (lines 401-402, 787-788)
isFresh(entry, now, duration) ==
  ~entry.data.isNull /\ now - entry.timestamp < duration

\* (variations: the catch block rethrows / ignores the cache)
getJourneysCatch_rethrow(entry, fallback) == Throw("Error fetching data")
getJourneysCatch_alwaysFallback(entry, fallback) == Return(fallback)

\* the catch block of getJourneys (lines 419-430): entry is the route's
\* cache entry, fallback what getFallbackData returns
getJourneysCatch(entry, fallback) ==
  IF ~entry.data.isNull THEN Return(entry.data) ELSE Return(fallback)

\* `a === b` on arrays and null
sameObject(a, b) == a.isNull = b.isNull /\ (a.isNull \/ a.ref = b.ref)

\* app.get('/trains/...') of the oebb-hafas variant (lines 433-471)
hafasHandler(endpoint, outcome, entry, now, ref) ==
  IF outcome.kind = "return"
  THEN [ status |-> 200, route |-> endpoint, trains |-> outcome.value.items,
         cached |-> sameObject(entry.data, outcome.value) ]
  ELSE [ status |-> 500, error |-> TRUE, message |-> "Failed to fetch train data",
         fallback |-> getFallbackData(endpoint, now, ref).items ]

\* getJourneys of the oebb-hafas variant once fetchRealTrainData ended with
\* `fetched` (lines 409-430): the route's new cache entry and what it returns
getJourneysHafas(entry, fetched, now, fallback) ==
  IF fetched.kind = "return"
  THEN [ entry |-> [data |-> fetched.value, timestamp |-> now],
         outcome |-> Return(fetched.value) ]
  ELSE [ entry |-> entry, outcome |-> getJourneysCatch(entry, fallback) ]

(***************************************************************************)
(* v3 variant (src/server.js 521-948).                                     *)
(***************************************************************************)
CACHE_DURATION_V3 == 90000

PatternStpLinz ==
  << [hour |-> 5, minute |-> 42, type |-> "RJ", duration |-> 71, platform |-> "2"],
     [hour |-> 6, minute |-> 42, type |-> "RJ", duration |-> 71, platform |-> "2"],
     [hour |-> 7, minute |-> 12, type |-> "WB", duration |-> 68, platform |-> "1"],
     [hour |-> 7, minute |-> 42, type |-> "RJ", duration |-> 71, platform |-> "2"],
     [hour |-> 8, minute |-> 12, type |-> "WB", duration |-> 68, platform |-> "1"],
     [hour |-> 8, minute |-> 42, type |-> "RJ", duration |-> 71, platform |-> "2"],
     [hour |-> 9, minute |-> 12, type |-> "WB", duration |-> 68, platform |-> "1"],
     [hour |-> 9, minute |-> 42, type |-> "RJ", duration |-> 71, platform |-> "2"],
     [hour |-> 10, minute |-> 12, type |-> "WB", duration |-> 68, platform |-> "1"],
     [hour |-> 10, minute |-> 42, type |-> "RJ", duration |-> 71, platform |-> "2"],
     [hour |-> 11, minute |-> 12, type |-> "WB", duration |-> 68, platform |-> "1"],
     [hour |-> 11, minute |-> 42, type |-> "RJ", duration |-> 71, platform |-> "2"],
     [hour |-> 12, minute |-> 12, type |-> "WB", duration |-> 68, platform |-> "1"],
     [hour |-> 12, minute |-> 42, type |-> "RJ", duration |-> 71, platform |-> "2"],
     [hour |-> 13, minute |-> 12, type |-> "WB", duration |-> 68, platform |-> "1"],
     [hour |-> 13, minute |-> 42, type |-> "RJ", duration |-> 71, platform |-> "2"],
     [hour |-> 14, minute |-> 12, type |-> "WB", duration |-> 68, platform |-> "1"],
     [hour |-> 14, minute |-> 42, type |-> "RJ", duration |-> 71, platform |-> "2"],
     [hour |-> 15, minute |-> 12, type |-> "WB", duration |-> 68, platform |-> "1"],
     [hour |-> 15, minute |-> 42, type |-> "RJ", duration |-> 71, platform |-> "2"],
     [hour |-> 16, minute |-> 12, type |-> "WB", duration |-> 68, platform |-> "1"],
     [hour |-> 16, minute |-> 42, type |-> "RJ", duration |-> 71, platform |-> "2"],
     [hour |-> 17, minute |-> 12, type |-> "WB", duration |-> 68, platform |-> "1"],
     [hour |-> 17, minute |-> 42, type |-> "RJ", duration |-> 71, platform |-> "2"],
     [hour |-> 18, minute |-> 12, type |-> "WB", duration |-> 68, platform |-> "1"],
     [hour |-> 18, minute |-> 42, type |-> "RJ", duration |-> 71, platform |-> "2"],
     [hour |-> 19, minute |-> 12, type |-> "WB", duration |-> 68, platform |-> "1"],
     [hour |-> 19, minute |-> 42, type |-> "RJ", duration |-> 71, platform |-> "2"],
     [hour |-> 20, minute |-> 12, type |-> "WB", duration |-> 68, platform |-> "1"],
     [hour |-> 20, minute |-> 42, type |-> "RJ", duration |-> 71, platform |-> "2"],
     [hour |-> 21, minute |-> 12, type |-> "WB", duration |-> 68, platform |-> "1"],
     [hour |-> 21, minute |-> 42, type |-> "RJ", duration |-> 71, platform |-> "2"],
     [hour |-> 22, minute |-> 42, type |-> "RJ", duration |-> 71, platform |-> "2"] >>

PatternLinzStp ==
  << [hour |-> 5, minute |-> 7, type |-> "RJ", duration |-> 71, platform |-> "1"],
     [hour |-> 6, minute |-> 7, type |-> "RJ", duration |-> 71, platform |-> "1"],
     [hour |-> 6, minute |-> 48, type |-> "WB", duration |-> 68, platform |-> "4"],
     [hour |-> 7, minute |-> 7, type |-> "RJ", duration |-> 71, platform |-> "1"],
     [hour |-> 7, minute |-> 48, type |-> "WB", duration |-> 68, platform |-> "4"],
     [hour |-> 8, minute |-> 7, type |-> "RJ", duration |-> 71, platform |-> "1"],
     [hour |-> 8, minute |-> 48, type |-> "WB", duration |-> 68, platform |-> "4"],
     [hour |-> 9, minute |-> 7, type |-> "RJ", duration |-> 71, platform |-> "1"],
     [hour |-> 9, minute |-> 48, type |-> "WB", duration |-> 68, platform |-> "4"],
     [hour |-> 10, minute |-> 7, type |-> "RJ", duration |-> 71, platform |-> "1"],
     [hour |-> 10, minute |-> 48, type |-> "WB", duration |-> 68, platform |-> "4"],
     [hour |-> 11, minute |-> 7, type |-> "RJ", duration |-> 71, platform |-> "1"],
     [hour |-> 11, minute |-> 48, type |-> "WB", duration |-> 68, platform |-> "4"],
     [hour |-> 12, minute |-> 7, type |-> "RJ", duration |-> 71, platform |-> "1"],
     [hour |-> 12, minute |-> 48, type |-> "WB", duration |-> 68, platform |-> "4"],
     [hour |-> 13, minute |-> 7, type |-> "RJ", duration |-> 71, platform |-> "1"],
     [hour |-> 13, minute |-> 48, type |-> "WB", duration |-> 68, platform |-> "4"],
     [hour |-> 14, minute |-> 7, type |-> "RJ", duration |-> 71, platform |-> "1"],
     [hour |-> 14, minute |-> 48, type |-> "WB", duration |-> 68, platform |-> "4"],
     [hour |-> 15, minute |-> 7, type |-> "RJ", duration |-> 71, platform |-> "1"],
     [hour |-> 15, minute |-> 48, type |-> "WB", duration |-> 68, platform |-> "4"],
     [hour |-> 16, minute |-> 7, type |-> "RJ", duration |-> 71, platform |-> "1"],
     [hour |-> 16, minute |-> 48, type |-> "WB", duration |-> 68, platform |-> "4"],
     [hour |-> 17, minute |-> 7, type |-> "RJ", duration |-> 71, platform |-> "1"],
     [hour |-> 17, minute |-> 48, type |-> "WB", duration |-> 68, platform |-> "4"],
     [hour |-> 18, minute |-> 7, type |-> "RJ", duration |-> 71, platform |-> "1"],
     [hour |-> 18, minute |-> 48, type |-> "WB", duration |-> 68, platform |-> "4"],
     [hour |-> 19, minute |-> 7, type |-> "RJ", duration |-> 71, platform |-> "1"],
     [hour |-> 19, minute |-> 48, type |-> "WB", duration |-> 68, platform |-> "4"],
     [hour |-> 20, minute |-> 7, type |-> "RJ", duration |-> 71, platform |-> "1"],
     [hour |-> 20, minute |-> 48, type |-> "WB", duration |-> 68, platform |-> "4"],
     [hour |-> 21, minute |-> 7, type |-> "RJ", duration |-> 71, platform |-> "1"],
     [hour |-> 22, minute |-> 7, type |-> "RJ", duration |-> 71, platform |-> "1"] >>

typeText(type) ==
  CASE type = "RJ" -> <<"R","J">>
    [] type = "WB" -> <<"W","B">>
    [] type = "RJX" -> <<"R","J","X">>
    [] type = "IC" -> <<"I","C">>

generateTrainNumber(type, hour, minute) ==
  IF type = "RJ"
  THEN <<"R","J"," ">> \o toString(540 + (hour % 12) * 2 + (IF minute > 30 THEN 1 ELSE 0))
  ELSE IF type = "WB"
  THEN <<"W","B"," ">> \o toString(8640 + (hour % 12) * 2 + (IF minute > 30 THEN 1 ELSE 0))
  ELSE IF type = "RJX"
  THEN <<"R","J","X"," ">> \o toString(760 + (hour % 8) * 2)
  ELSE IF type = "IC"
  THEN <<"I","C"," ">> \o toString(500 + (hour % 10) * 2)
  ELSE typeText(type) \o <<" ">> \o toString(hour) \o toString(minute)

\* delay drawn for one same-day leg (lines 695-708)
RealisticDelay(currentHour, draw) ==
  IF (currentHour >= 7 /\ currentHour <= 9) \/ (currentHour >= 17 /\ currentHour <= 19)
  THEN (IF draw[1] > 70 THEN ((draw[2] * 12) \div 100) + 1 ELSE 0)
  ELSE (IF draw[1] > 85 THEN ((draw[2] * 8) \div 100) + 1 ELSE 0)

RealisticSameDayLeg(train, currentHour, draw) ==
  LET trainTotalMinutes == train.hour * 60 + train.minute
      arrivalMinutes == (trainTotalMinutes + train.duration) % (24 * 60)
      arrivalHour == arrivalMinutes \div 60
      arrivalMin == arrivalMinutes % 60
      delay == RealisticDelay(currentHour, draw)
  IN  [ departure |-> TimeString(train.hour, train.minute),
        arrival |-> TimeString(arrivalHour, arrivalMin),
        trainType |-> train.type,
        trainNumber |-> generateTrainNumber(train.type, train.hour, train.minute),
        delay |-> delay,
        status |-> IF delay > 0
                   THEN (IF delay <= 5 THEN "slightly-delayed" ELSE "delayed")
                   ELSE "on-time",
        platform |-> train.platform ]

RealisticNextDayLeg(train) ==
  LET arrivalMinutes == train.hour * 60 + train.minute + train.duration
      arrivalHour == (arrivalMinutes \div 60) % 24
      arrivalMin == arrivalMinutes % 60
  IN  [ departure |-> TimeString(train.hour, train.minute),
        arrival |-> TimeString(arrivalHour, arrivalMin),
        trainType |-> train.type,
        trainNumber |-> generateTrainNumber(train.type, train.hour, train.minute),
        delay |-> 0,
        status |-> "scheduled",
        platform |-> train.platform ]

\* (variation: a departure in the current minute counts as upcoming)
generateRealisticSchedule_notStrict(from, to, now, rnd, ref) ==
  LET currentHour == getHours(now)
      currentMinute == getMinutes(now)
      schedulePattern == IF from = "St. Poelten" /\ to = "Linz"
                         THEN PatternStpLinz ELSE PatternLinzStp
      currentTotalMinutes == currentHour * 60 + currentMinute
      later == SelectSeq(schedulePattern,
                 LAMBDA train: train.hour * 60 + train.minute >= currentTotalMinutes)
      today == SubSeq(later, 1, Min(3, Len(later)))
      sameDay == [i \in 1..Len(today) |->
                    RealisticSameDayLeg(today[i], currentHour, rnd[i])]
      nextDay == [i \in 1..Min(3 - Len(sameDay), Len(schedulePattern)) |->
                    RealisticNextDayLeg(schedulePattern[i])]
  IN  JsArray(ref, sameDay \o nextDay)

\* generateRealisticSchedule(fromStation, toStation) called at clock reading
\* now, with the outcomes rnd of its calls to Math.random()
generateRealisticSchedule(from, to, now, rnd, ref) ==
  LET currentHour == getHours(now)
      currentMinute == getMinutes(now)
      schedulePattern == IF from = "St. Poelten" /\ to = "Linz"
                         THEN PatternStpLinz ELSE PatternLinzStp
      currentTotalMinutes == currentHour * 60 + currentMinute
      later == SelectSeq(schedulePattern,
                 LAMBDA train: train.hour * 60 + train.minute > currentTotalMinutes)
      today == SubSeq(later, 1, Min(3, Len(later)))
      sameDay == [i \in 1..Len(today) |->
                    RealisticSameDayLeg(today[i], currentHour, rnd[i])]
      remainingCount == 3 - Len(sameDay)
      nextDay == [i \in 1..Min(remainingCount, Len(schedulePattern)) |->
                    RealisticNextDayLeg(schedulePattern[i])]
  IN  JsArray(ref, sameDay \o nextDay)

\* the two live methods are placeholders that reject (lines 569-590)
tryOebbWebScraping == Throw("Web scraping not implemented")
tryThirdPartyAPIs == Throw("No working third-party APIs found")

\* fetchRealTrainData of the v3 variant (lines 538-567); `synthetic` is what
\* generateRealisticSchedule returns.  A source tag is a sequence of the
\* pieces it is concatenated from.
fetchRealTrainDataV3(synthetic) ==
  LET realData == tryOebbWebScraping
      thirdPartyData == tryThirdPartyAPIs
  IN  IF realData.kind = "return" /\ hasTrains(realData.value)
      THEN Return([trains |-> realData.value, source |-> <<"oebb-web">>])
      ELSE IF thirdPartyData.kind = "return" /\ hasTrains(thirdPartyData.value)
      THEN Return([trains |-> thirdPartyData.value, source |-> <<"third-party">>])
      ELSE Return([trains |-> synthetic, source |-> <<"realistic-schedule">>])

\* getJourneys of the v3 variant after the cache check failed (lines
\* 797-835): the route's new cache entry and what it returns
getJourneysV3(entry, fetched, now, fallback) ==
  IF fetched.kind = "return"
  THEN [ entry |-> [ data |-> fetched.value.trains, source |-> fetched.value.source,
                     timestamp |-> now ],
         outcome |-> Return([ trains |-> fetched.value.trains,
                              source |-> fetched.value.source, cached |-> FALSE ]) ]
  ELSE IF ~entry.data.isNull
  THEN [ entry |-> entry,
         outcome |-> Return([ trains |-> entry.data,
                              source |-> Append(entry.source, "-stale"),
                              cached |-> TRUE ]) ]
  ELSE [ entry |-> entry,
         outcome |-> Return([ trains |-> fallback, source |-> <<"emergency-fallback">>,
                              cached |-> FALSE ]) ]

\* app.get('/trains/...') of the v3 variant (lines 838-882)
v3Handler(endpoint, outcome, errorFallback) ==
  IF outcome.kind = "return"
  THEN [ status |-> 200, route |-> endpoint, trains |-> outcome.value.trains.items,
         source |-> outcome.value.source, cached |-> outcome.value.cached,
         realTimeAttempted |-> TRUE ]
  ELSE [ status |-> 500, error |-> TRUE, message |-> "Failed to fetch train data",
         trains |-> errorFallback.items, source |-> <<"error-fallback">> ]

(***************************************************************************)
(* hafas-client variant (src/server.js 131-240).                           *)
(***************************************************************************)
CACHE_DURATION_CLIENT == 300000

FOUR_HOURS == 4 * 60 * 60 * 1000

\* transformJourney(journey): the times are passed on as they came,
\* delayMinutes is the quotient depDelay / 60, kept as a fraction
transformJourney(journey) ==
  LET leg == journey.legs[1]
      depDelay == leg.departureDelay
  IN  [ train |-> leg.lineName,
        trainType |-> leg.productType,
        departure |-> leg.departure,
        arrival |-> leg.arrival,
        departurePlatform |-> leg.departurePlatform,
        arrivalPlatform |-> leg.arrivalPlatform,
        delayMinutes |-> [num |-> depDelay, den |-> 60],
        status |-> IF depDelay <= 0 THEN "on-time"
                   ELSE IF depDelay <= 300 THEN "slightly-delayed"
                   ELSE "delayed" ]

ClientUpstream ==
  { [kind |-> "error", journeys |-> << >>],
    [kind |-> "journeys", journeys |-> << >>],
    [kind |-> "journeys", journeys |-> <<JourneyE, JourneyF>>],
    [kind |-> "journeys", journeys |-> <<JourneyA, JourneyB, JourneyC, JourneyD>>],
    [kind |-> "journeys", journeys |-> <<JourneyB, JourneyNoLegs>>] }

\* getJourneys of the hafas-client variant after hafas.journeys() answered
\* u (lines 184-199): `now` is the request's reading of Date.now(),
\* `current` the reading inside the filter; the route's new cache entry and
\* the list it returns
getJourneysClient(entry, u, now, current, ref) ==
  IF u.kind = "error" \/ \E i \in 1..Len(u.journeys) : Len(u.journeys[i].legs) = 0
  THEN [ entry |-> entry, outcome |-> Return(JsArray(<<"catch", current>>, << >>)) ]
  ELSE LET filtered == SelectSeq(u.journeys,
                         LAMBDA j : j.legs[1].departure - current <= FOUR_HOURS)
           first3 == SubSeq(filtered, 1, Min(3, Len(filtered)))
           transformed == JsArray(ref, [i \in 1..Len(first3) |->
                                          transformJourney(first3[i])])
       IN  [ entry |-> [data |-> transformed, timestamp |-> now],
             outcome |-> Return(transformed) ]

\* handleRoute (lines 219-222): the response body is the list itself
clientHandler(endpoint, outcome) ==
  [ status |-> 200, route |-> endpoint, trains |-> outcome.value.items ]

(***************************************************************************)
(* Request slots.  A slot holds at most one request at a time.  The        *)
(* scraper has one slot per endpoint; the cached variants have two slots,  *)
(* each taking a request for either route.                                 *)
(***************************************************************************)
CachedSlots == {"c1", "c2"}

Routes == {"stpoelten-linz", "linz-stpoelten"}

cacheKey_shared(route) == "stpLinz"

\* the cacheKey argument the handler of a route passes to getJourneys
cacheKey(route) == IF route = "linz-stpoelten" THEN "linzStp" ELSE "stpLinz"

NoResponse == [status |-> 0]
EmptyEntry == [data |-> JsNull, timestamp |-> 0]
EmptyEntryV3 == [data |-> JsNull, timestamp |-> 0, source |-> << >>]

IdleReq ==
  [ pc |-> "idle",        \* idle, waiting, <call in flight>, done
    endpoint |-> "",      \* the endpoint requested
    now |-> 0,            \* getJourneys in flight: its reading of Date.now()
    waits |-> 0,          \* scraper: how often the request waited on the gate
    turns |-> 0,          \* 0, or 1 + how many of its queued promise jobs have run
    order |-> 0,          \* its place among the jobs queued in the same run
    foundFree |-> FALSE,  \* scraper: whether it found the gate free on arrival
    calls |-> << >>,      \* scraper: the strategies it invoked, in order
    ret |-> JsNull,       \* scraper: what the last completed strategy returned
    fetched |-> "none",   \* getJourneys: how fetchRealTrainData ended, if called
    outcome |-> Return(JsNull),  \* how scrapeOebbData / getJourneys ended
    resp |-> NoResponse ]

Variants == {"scraper", "hafas", "v3", "client"}

Slots(v) == IF v = "scraper" THEN ScraperEndpoints ELSE CachedSlots

InitVariant(v) ==
  /\ variant = v
  /\ clock \in StartTimes(v)
  /\ ticks = 0
  /\ hafas \in (IF v = "hafas" THEN BOOLEAN ELSE {FALSE})
  /\ isScrapingInProgress = FALSE
  /\ cache = IF v = "scraper" THEN << >>
             ELSE IF v \in {"hafas", "client"} THEN [k \in CacheKeys |-> EmptyEntry]
             ELSE [k \in CacheKeys |-> EmptyEntryV3]
  /\ req = [r \in Slots(v) |-> IdleReq]

Init == \E v \in Variants : InitVariant(v)

(***************************************************************************)
(* Scraper variant: scrapeOebbData and its callers, one action per run of  *)
(* the event loop.                                                         *)
(***************************************************************************)
\* the request in slot r acquires the gate and starts tryPostQuery
Acquire(r, free) ==
  /\ isScrapingInProgress' = TRUE
  /\ req' = [req EXCEPT ![r] = [@ EXCEPT !.pc = "tryPostQuery",
                                         !.endpoint = r,
                                         !.foundFree = free,
                                         !.calls = <<"tryPostQuery">>]]

\* scrapeOebbData of slot r ends with `outcome`; its handler responds
Finish(r, data, outcome, gate, rnd) ==
  /\ isScrapingInProgress' = gate
  /\ req' = [req EXCEPT ![r] = [@ EXCEPT !.pc = "done",
                                         !.ret = data,
                                         !.outcome = outcome,
                                         !.resp = scraperHandler(r, outcome, clock, rnd)]]

\* a request arrives on endpoint r: gate check on entry (lines 15-24, 28)
ScraperArrive(r) ==
  /\ variant = "scraper"
  /\ req[r].pc = "idle"
  /\ IF busyOnEntry(isScrapingInProgress)
     THEN /\ req' = [req EXCEPT ![r] = [@ EXCEPT !.pc = "waiting", !.endpoint = r,
                                                 !.waits = @ + 1]]
          /\ UNCHANGED isScrapingInProgress
     ELSE Acquire(r, TRUE)
  /\ UNCHANGED <<variant, clock, ticks, hafas, cache>>

\* the 2000 ms timer of a waiting request fires (lines 18-24, 28)
WakeUp(r) ==
  /\ variant = "scraper"
  /\ req[r].pc = "waiting"
  /\ IF busyAfterWait(isScrapingInProgress)
     THEN \E rnd \in RandomStreams :
            Finish(r, req[r].ret, Throw(BusyMessage),
                   gateAfterBusy(isScrapingInProgress), rnd)
     ELSE Acquire(r, FALSE)
  /\ UNCHANGED <<variant, clock, ticks, hafas, cache>>

\* strategy `name` of slot r ends with `ended`: a rejection would leave the
\* try block of scrapeOebbData through finally (lines 26-51)
StrategyDone(r, name, ended) ==
  /\ variant = "scraper"
  /\ req[r].pc = name
  /\ LET next == nextStrategy(name)
         data == ended.value
     IN  IF ended.kind = "throw"
         THEN \E rnd \in RandomStreams :
                Finish(r, req[r].ret, ended, gateAfterTry(ended), rnd)
         ELSE IF hasTrains(data)
         THEN \E rnd \in RandomStreams :
                Finish(r, data, Return(data), gateAfterTry(Return(data)), rnd)
         ELSE IF next # "none"
         THEN /\ req' = [req EXCEPT ![r] = [@ EXCEPT !.pc = next,
                                                     !.ret = data,
                                                     !.calls = Append(@, next)]]
              /\ UNCHANGED isScrapingInProgress
         ELSE \E rnd \in RandomStreams :
                Finish(r, data, Throw(AllFailedMessage),
                       gateAfterTry(Throw(AllFailedMessage)), rnd)
  /\ UNCHANGED <<variant, clock, ticks, hafas, cache>>

\* how each strategy can end, over the answers of the upstream
StrategyResults(name) ==
  { callStrategy(name, fromStation(endpoint), u) : endpoint \in ScraperEndpoints,
                                                   u \in Upstream }
PostResults == StrategyResults("tryPostQuery")
BoardResults == StrategyResults("tryStationBoard")
MgateResults == StrategyResults("tryMgateEndpoint")

PostDone(r) == \E ended \in PostResults : StrategyDone(r, "tryPostQuery", ended)
BoardDone(r) == \E ended \in BoardResults : StrategyDone(r, "tryStationBoard", ended)
MgateDone(r) == \E ended \in MgateResults : StrategyDone(r, "tryMgateEndpoint", ended)

(***************************************************************************)
(* Promise jobs.  Every await hands control back to the event loop.  A     *)
(* handler start and a network answer are events; the events of one run of *)
(* the event loop (the requests pipelined on one connection, answers that  *)
(* settle together) each put one continuation into the queue of promise    *)
(* jobs.  The queue is first in, first out: a job that awaits a settled    *)
(* promise puts its continuation at the tail, so the requests in the queue *)
(* take turns in the order of their events, and the queue is empty before  *)
(* the next event is handled or any time passes.  One action is the code   *)
(* between two awaits.                                                     *)
(***************************************************************************)
\* a continuation of the request in slot r is in the queue of promise jobs
Queued(r) == req[r].turns > 0

\* how many requests are in the queue: the place of the next to join it
QueueLen == Cardinality({ o \in CachedSlots : Queued(o) })

\* the continuation of slot r is at the head of the queue of promise jobs:
\* every other request in the queue has run more turns, or as many and came
\* later
JobTurn(r) ==
  /\ Queued(r)
  /\ \A o \in CachedSlots \ {r} :
       Queued(o) =>
         \/ req[r].turns < req[o].turns
         \/ req[r].turns = req[o].turns /\ req[r].order < req[o].order

\* no promise job has run since the first event of this run: each request
\* in the queue waits for its first turn, and none that came with them has
\* gone on
SameRun ==
  LET queued == { o \in CachedSlots : Queued(o) }
  IN  /\ \A o \in queued : req[o].turns = 1
      /\ { req[o].order : o \in queued } = 0..(Cardinality(queued) - 1)

(***************************************************************************)
(* oebb-hafas variant: getJourneys and the route handlers.                 *)
(***************************************************************************)
\* a request arrives: the handler calls getJourneys, which reads the clock
\* and checks the cache (lines 435, 398-405); on a miss it calls
\* fetchRealTrainData, which throws without a client (lines 273-275) or
\* awaits hafas.journeys() (line 280)
HafasArrive(r, route) ==
  /\ variant = "hafas"
  /\ req[r].pc = "idle"
  /\ SameRun
  /\ LET entry == cache[cacheKey(route)]
         now == clock
     IN  IF isFresh(entry, now, CACHE_DURATION)
         THEN req' = [req EXCEPT ![r] =
                        [@ EXCEPT !.pc = "getJourneys", !.endpoint = route,
                                  !.now = now, !.turns = 1, !.order = QueueLen,
                                  !.outcome = Return(entry.data)]]
         ELSE IF ~hafas
         THEN req' = [req EXCEPT ![r] =
                        [@ EXCEPT !.pc = "fetchRealTrainData", !.endpoint = route,
                                  !.now = now, !.turns = 1, !.order = QueueLen,
                                  !.outcome = fetchRealTrainData(hafas,
                                                 [kind |-> "error", journeys |-> << >>],
                                                 <<"fetch", now, r>>)]]
         ELSE req' = [req EXCEPT ![r] =
                        [@ EXCEPT !.pc = "journeys", !.endpoint = route,
                                  !.now = now]]
  /\ UNCHANGED <<variant, clock, ticks, hafas, isScrapingInProgress, cache>>

\* hafas.journeys() of slot r answers: the promise fetchRealTrainData
\* awaits settles (line 280)
HafasDone(r) ==
  /\ variant = "hafas"
  /\ req[r].pc = "journeys"
  /\ ~Queued(r)
  /\ SameRun
  /\ req' = [req EXCEPT ![r] = [@ EXCEPT !.turns = 1, !.order = QueueLen]]
  /\ UNCHANGED <<variant, clock, ticks, hafas, isScrapingInProgress, cache>>

\* fetchRealTrainData of slot r goes on with u, what hafas.journeys()
\* answered, and returns its trains or throws (lines 280-342)
HafasFetchDone(r) ==
  /\ variant = "hafas"
  /\ req[r].pc = "journeys"
  /\ JobTurn(r)
  /\ \E u \in HafasUpstream :
       req' = [req EXCEPT ![r] =
                 [@ EXCEPT !.pc = "fetchRealTrainData", !.turns = @ + 1,
                           !.outcome = fetchRealTrainData(hafas, u,
                                                          <<"fetch", req[r].now, r>>)]]
  /\ UNCHANGED <<variant, clock, ticks, hafas, isScrapingInProgress, cache>>

\* getJourneys of slot r goes on after fetchRealTrainData settled: it
\* writes the cache and returns the trains, or catches the error and returns
\* the cached or the fallback data (lines 409-430)
HafasSettle(r) ==
  /\ variant = "hafas"
  /\ req[r].pc = "fetchRealTrainData"
  /\ JobTurn(r)
  /\ LET key == cacheKey(req[r].endpoint)
         fetched == req[r].outcome
         result == getJourneysHafas(cache[key], fetched, req[r].now,
                     getFallbackData(key, clock, <<"fallback", clock, r>>))
     IN  /\ cache' = [cache EXCEPT ![key] = result.entry]
         /\ req' = [req EXCEPT ![r] =
                      [@ EXCEPT !.pc = "getJourneys", !.turns = @ + 1,
                                !.fetched = fetched.kind,
                                !.outcome = result.outcome]]
  /\ UNCHANGED <<variant, clock, ticks, hafas, isScrapingInProgress>>

\* the handler of slot r goes on after getJourneys settled and responds;
\* `cached` compares the trains with what the cache holds by then
\* (lines 437-451, 455-469)
HafasRespond(r) ==
  /\ variant = "hafas"
  /\ req[r].pc = "getJourneys"
  /\ JobTurn(r)
  /\ LET route == req[r].endpoint
     IN  req' = [req EXCEPT ![r] =
                   [@ EXCEPT !.pc = "done", !.now = 0, !.turns = 0, !.order = 0,
                             !.resp = hafasHandler(route, req[r].outcome,
                                                   cache[cacheKey(route)], clock,
                                                   <<"handler", clock, r>>)]]
  /\ UNCHANGED <<variant, clock, ticks, hafas, isScrapingInProgress, cache>>

(***************************************************************************)
(* v3 variant: getJourneys and the route handlers.  No call of this        *)
(* variant waits for the network: a request is in the queue of promise     *)
(* jobs from its arrival to its response.                                  *)
(***************************************************************************)
\* a request arrives, in the run of the event loop in which the requests in
\* progress arrived: the handler calls getJourneys, which reads the clock
\* and checks the cache (lines 783-795) or calls fetchRealTrainData up to
\* its first await (lines 797-799, 538-543)
V3Arrive(r, route) ==
  /\ variant = "v3"
  /\ req[r].pc = "idle"
  /\ SameRun
  /\ LET entry == cache[cacheKey(route)]
         now == clock
         order == QueueLen
     IN  IF isFresh(entry, now, CACHE_DURATION_V3)
         THEN req' = [req EXCEPT ![r] =
                        [@ EXCEPT !.pc = "getJourneys", !.endpoint = route,
                                  !.now = now, !.turns = 1, !.order = order,
                                  !.outcome = Return([ trains |-> entry.data,
                                                       source |-> entry.source,
                                                       cached |-> TRUE ])]]
         ELSE req' = [req EXCEPT ![r] =
                        [@ EXCEPT !.pc = "tryOebbWebScraping", !.endpoint = route,
                                  !.now = now, !.turns = 1, !.order = order]]
  /\ UNCHANGED <<variant, clock, ticks, hafas, isScrapingInProgress, cache>>

\* fetchRealTrainData of slot r goes on after tryOebbWebScraping settled
\* (lines 543-554)
V3WebScrapingDone(r) ==
  /\ variant = "v3"
  /\ req[r].pc = "tryOebbWebScraping"
  /\ JobTurn(r)
  /\ LET realData == tryOebbWebScraping
     IN  IF realData.kind = "return" /\ hasTrains(realData.value)
         THEN req' = [req EXCEPT ![r] =
                        [@ EXCEPT !.pc = "fetchRealTrainData", !.turns = @ + 1,
                                  !.outcome = Return([ trains |-> realData.value,
                                                       source |-> <<"oebb-web">> ])]]
         ELSE req' = [req EXCEPT ![r] =
                        [@ EXCEPT !.pc = "tryThirdPartyAPIs", !.turns = @ + 1]]
  /\ UNCHANGED <<variant, clock, ticks, hafas, isScrapingInProgress, cache>>

\* fetchRealTrainData of slot r goes on after tryThirdPartyAPIs settled and
\* returns (lines 554-567)
V3ThirdPartyDone(r) ==
  /\ variant = "v3"
  /\ req[r].pc = "tryThirdPartyAPIs"
  /\ JobTurn(r)
  /\ \E rnd \in RandomStreams :
       LET route == req[r].endpoint
           fetched == fetchRealTrainDataV3(
                        generateRealisticSchedule(fromStation(route), toStation(route),
                                                  clock, rnd, <<"fetch", clock, r>>))
       IN  req' = [req EXCEPT ![r] =
                     [@ EXCEPT !.pc = "fetchRealTrainData", !.turns = @ + 1,
                               !.outcome = fetched]]
  /\ UNCHANGED <<variant, clock, ticks, hafas, isScrapingInProgress, cache>>

\* getJourneys of slot r goes on after fetchRealTrainData settled: it
\* writes the cache and returns (lines 799-835)
V3FetchDone(r) ==
  /\ variant = "v3"
  /\ req[r].pc = "fetchRealTrainData"
  /\ JobTurn(r)
  /\ \E rnd \in RandomStreams :
       LET route == req[r].endpoint
           key == cacheKey(route)
           fetched == req[r].outcome
           result == getJourneysV3(cache[key], fetched, req[r].now,
                       generateRealisticSchedule(fromStation(route), toStation(route),
                                                 clock, rnd, <<"fallback", clock, r>>))
       IN  /\ cache' = [cache EXCEPT ![key] = result.entry]
           /\ req' = [req EXCEPT ![r] =
                        [@ EXCEPT !.pc = "getJourneys", !.turns = @ + 1,
                                  !.fetched = fetched.kind,
                                  !.outcome = result.outcome]]
  /\ UNCHANGED <<variant, clock, ticks, hafas, isScrapingInProgress>>

\* the handler of slot r goes on after getJourneys settled and responds
\* (lines 840-859, 863-882)
V3Respond(r) ==
  /\ variant = "v3"
  /\ req[r].pc = "getJourneys"
  /\ JobTurn(r)
  /\ \E rnd \in RandomStreams :
       LET route == req[r].endpoint
       IN  req' = [req EXCEPT ![r] =
                     [@ EXCEPT !.pc = "done", !.now = 0, !.turns = 0, !.order = 0,
                               !.resp = v3Handler(route, req[r].outcome,
                                  generateRealisticSchedule(fromStation(route),
                                     toStation(route), clock, rnd,
                                     <<"handler", clock, r>>))]]
  /\ UNCHANGED <<variant, clock, ticks, hafas, isScrapingInProgress, cache>>

(***************************************************************************)
(* hafas-client variant: getJourneys and handleRoute.                      *)
(***************************************************************************)
\* a request arrives: the handler calls handleRoute, which calls
\* getJourneys; it reads the clock and checks the cache (lines 168-177), and
\* on a miss awaits hafas.journeys() (line 179)
ClientArrive(r, route) ==
  /\ variant = "client"
  /\ req[r].pc = "idle"
  /\ SameRun
  /\ LET entry == cache[cacheKey(route)]
         now == clock
     IN  IF isFresh(entry, now, CACHE_DURATION_CLIENT)
         THEN req' = [req EXCEPT ![r] =
                        [@ EXCEPT !.pc = "getJourneys", !.endpoint = route,
                                  !.now = now, !.turns = 1, !.order = QueueLen,
                                  !.outcome = Return(entry.data)]]
         ELSE req' = [req EXCEPT ![r] =
                        [@ EXCEPT !.pc = "journeys", !.endpoint = route, !.now = now]]
  /\ UNCHANGED <<variant, clock, ticks, hafas, isScrapingInProgress, cache>>

\* hafas.journeys() of slot r answers: the promise getJourneys awaits
\* settles (line 179)
ClientDone(r) ==
  /\ variant = "client"
  /\ req[r].pc = "journeys"
  /\ ~Queued(r)
  /\ SameRun
  /\ req' = [req EXCEPT ![r] = [@ EXCEPT !.turns = 1, !.order = QueueLen]]
  /\ UNCHANGED <<variant, clock, ticks, hafas, isScrapingInProgress, cache>>

\* getJourneys of slot r goes on with u, what hafas.journeys() answered:
\* it filters and transforms the journeys, writes the cache and returns the
\* list, or catches the error and returns an empty list (lines 184-199)
ClientSettle(r) ==
  /\ variant = "client"
  /\ req[r].pc = "journeys"
  /\ JobTurn(r)
  /\ \E u \in ClientUpstream :
       LET key == cacheKey(req[r].endpoint)
           result == getJourneysClient(cache[key], u, req[r].now, clock,
                                       <<"fetch", req[r].now, r>>)
       IN  /\ cache' = [cache EXCEPT ![key] = result.entry]
           /\ req' = [req EXCEPT ![r] =
                        [@ EXCEPT !.pc = "getJourneys", !.turns = @ + 1,
                                  !.fetched = IF result.outcome.value.ref[1] = "catch"
                                               THEN "throw" ELSE "return",
                                  !.outcome = result.outcome]]
  /\ UNCHANGED <<variant, clock, ticks, hafas, isScrapingInProgress>>

\* handleRoute of slot r goes on after getJourneys settled and responds
\* (lines 220-221)
ClientRespond(r) ==
  /\ variant = "client"
  /\ req[r].pc = "getJourneys"
  /\ JobTurn(r)
  /\ req' = [req EXCEPT ![r] =
               [@ EXCEPT !.pc = "done", !.now = 0, !.turns = 0, !.order = 0,
                         !.resp = clientHandler(req[r].endpoint, req[r].outcome)]]
  /\ UNCHANGED <<variant, clock, ticks, hafas, isScrapingInProgress, cache>>

(***************************************************************************)
(* Environment.                                                            *)
(***************************************************************************)
\* the client of slot r has read the response; the slot is free again
Reset(r) ==
  /\ req[r].pc = "done"
  /\ req' = [req EXCEPT ![r] = IdleReq]
  /\ UNCHANGED <<variant, clock, ticks, hafas, isScrapingInProgress, cache>>

\* time passes between two requests (the scraper keeps no timestamp: it
\* reads the clock only for the time of day of its synthetic schedule); the
\* promise jobs in the queue run before any time passes
Tick ==
  /\ variant # "scraper"
  /\ \A r \in CachedSlots : ~Queued(r)
  /\ ticks < MaxTicks
  /\ clock' = clock + TickMs
  /\ ticks' = ticks + 1
  /\ UNCHANGED <<variant, hafas, isScrapingInProgress, cache, req>>

\* a minute passes between two requests of the v3 variant, less than the
\* time-to-live of its cache
ShortTick ==
  /\ variant = "v3"
  /\ \A r \in CachedSlots : ~Queued(r)
  /\ ticks < MaxTicks
  /\ clock' = clock + ShortTickMs
  /\ ticks' = ticks + 1
  /\ UNCHANGED <<variant, hafas, isScrapingInProgress, cache, req>>

NextScraper ==
  \E r \in ScraperEndpoints :
    \/ ScraperArrive(r)
    \/ WakeUp(r)
    \/ PostDone(r)
    \/ BoardDone(r)
    \/ MgateDone(r)

NextHafas ==
  \E r \in CachedSlots :
    \/ \E route \in Routes : HafasArrive(r, route)
    \/ HafasDone(r)
    \/ HafasFetchDone(r)
    \/ HafasSettle(r)
    \/ HafasRespond(r)

NextV3 ==
  \E r \in CachedSlots :
    \/ \E route \in Routes : V3Arrive(r, route)
    \/ V3WebScrapingDone(r)
    \/ V3ThirdPartyDone(r)
    \/ V3FetchDone(r)
    \/ V3Respond(r)

NextClient ==
  \E r \in CachedSlots :
    \/ \E route \in Routes : ClientArrive(r, route)
    \/ ClientDone(r)
    \/ ClientSettle(r)
    \/ ClientRespond(r)

Next ==
  \/ NextScraper
  \/ NextHafas
  \/ NextV3
  \/ NextClient
  \/ \E r \in Slots(variant) : Reset(r)
  \/ Tick
  \/ ShortTick

(***************************************************************************)
(* Specifications.                                                         *)
(***************************************************************************)
Spec == Init /\ [][Next]_vars

\* The scraper alone, with the scheduling the platform guarantees: a timer
\* that was set fires, and a network call ends (axios is given a timeout).
NextLive == NextScraper \/ \E r \in ScraperEndpoints : Reset(r)

InitLive == InitVariant("scraper") /\ clock = 8 * 3600000

SpecLive ==
  /\ InitLive
  /\ [][NextLive]_vars
  /\ \A r \in ScraperEndpoints :
       /\ WF_vars(WakeUp(r))
       /\ WF_vars(PostDone(r))
       /\ WF_vars(BoardDone(r))
       /\ WF_vars(MgateDone(r))

(***************************************************************************)
(* Properties of the scraper's gate.                                       *)
(***************************************************************************)
InTry(r) == req[r].pc \in {"tryPostQuery", "tryStationBoard", "tryMgateEndpoint"}

EndedBusy(q) == q.pc = "done" /\ q.outcome.kind = "throw" /\ q.outcome.message = BusyMessage
EndedAllFailed(q) ==
  q.pc = "done" /\ q.outcome.kind = "throw" /\ q.outcome.message = AllFailedMessage
EndedWithData(q) == q.pc = "done" /\ q.outcome.kind = "return"

\* C1: in the scraper the gate flag is false whenever no call is inside its
\* strategy sequence: every call that set the gate cleared it when it left,
\* whether it returned data or threw.
C1_GateReleased ==
  variant = "scraper" =>
    ((\A r \in ScraperEndpoints : ~InTry(r)) => ~isScrapingInProgress)

\* C1 witness: one call has left by return and one by throw, and the gate is free.
C1_Witness ==
  /\ variant = "scraper"
  /\ ~isScrapingInProgress
  /\ \E a, b \in ScraperEndpoints :
       EndedWithData(req[a]) /\ EndedAllFailed(req[b])

\* C2: at most one scrapeOebbData call is between acquiring the gate and its
\* exit, over both routes and /debug/test-scraping.
C2_SingleFlight ==
  variant = "scraper" =>
    Cardinality({r \in ScraperEndpoints : InTry(r)}) <= 1

\* C2 witness: two requests waited on a held gate; after the holder left one
\* of them acquired the gate and the other found it held again.
C2_Witness ==
  /\ variant = "scraper"
  /\ \E a, b, c \in ScraperEndpoints :
       /\ req[a].pc = "done" /\ req[a].foundFree
       /\ InTry(b) /\ req[b].waits = 1
       /\ EndedBusy(req[c]) /\ req[c].waits = 1

\* C3: a call that finds the gate held waits once; after the wait it fails
\* with the busy error, having invoked no strategy, if the gate is still
\* held, and acquires the gate and starts the strategies if it is free.  A
\* call that found the gate free never fails busy, and no call waits twice.
C3_WaitOnce ==
  [][ variant = "scraper" =>
      \A r \in ScraperEndpoints :
        LET q == req[r]
            n == req'[r]
        IN  /\ (q.pc = "idle" /\ n.pc # "idle") =>
                 IF isScrapingInProgress
                 THEN n.pc = "waiting" /\ n.waits = 1 /\ n.calls = << >>
                 ELSE n.pc = "tryPostQuery" /\ n.waits = 0 /\ n.foundFree
                      /\ isScrapingInProgress'
            /\ (q.pc = "waiting" /\ n.pc # "waiting") =>
                 IF isScrapingInProgress
                 THEN EndedBusy(n) /\ n.calls = << >> /\ n.waits = 1
                 ELSE n.pc = "tryPostQuery" /\ n.calls = <<"tryPostQuery">>
                      /\ n.waits = 1 /\ isScrapingInProgress'
            /\ (n.pc = "waiting" => q.pc \in {"idle", "waiting"})
            /\ n.waits <= 1
            /\ (EndedBusy(n) => ~n.foundFree /\ n.waits = 1 /\ n.calls = << >>)
    ]_vars

\* C3 witness: one waiter ended busy and another acquired the gate after its wait.
C3_Witness ==
  /\ variant = "scraper"
  /\ \E a, b \in ScraperEndpoints :
       /\ EndedBusy(req[a]) /\ req[a].calls = << >>
       /\ req[b].waits = 1 /\ req[b].calls # << >> /\ EndedWithData(req[b])

(***************************************************************************)
(* Properties of the responses.                                            *)
(***************************************************************************)
TrainsRequest(q) == q.endpoint \in Routes

\* C4: every GET /trains/* request is answered with status 200, in the
\* scraper, the oebb-hafas variant and the v3 variant, whatever the
\* strategies, the gate and the cache did.
C4_Always200 ==
  \A r \in DOMAIN req :
    (req[r].pc = "done" /\ TrainsRequest(req[r])) => req[r].resp.status = 200

\* C4 witness: the oebb-hafas client is unavailable and the cache is empty;
\* two requests for one route came in the same run of the event loop, the
\* catch block of each ran before either was answered, and both were
\* answered with status 200.
C4_Witness ==
  /\ variant = "hafas"
  /\ ~hafas
  /\ \E r, o \in CachedSlots :
       /\ r # o
       /\ req[r].pc = "done" /\ req[r].fetched = "throw"
       /\ req[o].pc = "done" /\ req[o].fetched = "throw"
       /\ req[r].endpoint = req[o].endpoint
       /\ req[r].outcome.value.ref = <<"fallback", clock, r>>
       /\ req[o].outcome.value.ref = <<"fallback", clock, o>>
       /\ req[r].resp.status = 200 /\ req[o].resp.status = 200

\* C5: with timers firing and network calls ending, every request to the
\* scraper is eventually answered (answered requests hold a response with
\* status 200, the others none), and a held gate is eventually free.
C5_EventuallyAnswered ==
  /\ \A r \in ScraperEndpoints :
       (req[r].pc # "idle") ~> (req[r].pc = "done" /\ req[r].resp.status = 200)
  /\ [](\A r \in ScraperEndpoints : (req[r].pc = "done") <=> (req[r].resp # NoResponse))
  /\ isScrapingInProgress ~> ~isScrapingInProgress

\* C5 witness: a request that arrived while the gate was held has its response.
C5_Witness ==
  \E r \in DOMAIN req :
    /\ req[r].pc = "done" /\ req[r].waits = 1 /\ r \in Routes
    /\ req[r].resp.status = 200

IsPrefix(s, t) == Len(s) <= Len(t) /\ s = SubSeq(t, 1, Len(s))

\* C6: within one call the strategies are invoked in the order tryPostQuery,
\* tryStationBoard, tryMgateEndpoint, each at most once, and the next one
\* only after the one before returned null or an empty list.
C6_FixedOrder ==
  [][ variant = "scraper" =>
      \A r \in ScraperEndpoints :
        LET c == req[r].calls
            d == req'[r].calls
        IN  /\ IsPrefix(d, Strategies)
            /\ (InTry(r)' => req'[r].pc = d[Len(d)])
            /\ (d # c /\ d # << >>) =>
                 /\ d = Append(c, Strategies[Len(c) + 1])
                 /\ (c # << >> =>
                       req'[r].ret.isNull \/ Len(req'[r].ret.items) = 0)
    ]_vars

\* C6 witness: a call invoked all three strategies and another only the first.
C6_Witness ==
  /\ variant = "scraper"
  /\ \E a, b \in ScraperEndpoints :
       /\ req[a].pc = "done" /\ req[a].calls = Strategies
       /\ req[b].pc = "done" /\ req[b].calls = <<"tryPostQuery">>

\* C7: when tryPostQuery returns a non-empty list, scrapeOebbData returns
\* that list without invoking the other strategies, and the route handler
\* responds with those legs, source 'live-scraping' and realTimeData true.
C7_FirstStrategyWins ==
  [][ variant = "scraper" =>
      \A r \in ScraperEndpoints :
        LET n == req'[r]
        IN  (req[r].pc = "tryPostQuery" /\ n.pc # "tryPostQuery"
               /\ ~n.ret.isNull /\ Len(n.ret.items) > 0) =>
              /\ n.pc = "done"
              /\ n.calls = <<"tryPostQuery">>
              /\ n.outcome = Return(n.ret)
              /\ (r \in Routes =>
                    /\ n.resp.status = 200
                    /\ n.resp.trains = n.ret.items
                    /\ n.resp.source = "live-scraping"
                    /\ n.resp.realTimeData = TRUE)
    ]_vars

\* C7 witness: a route was answered with the three legs tryPostQuery returned.
C7_Witness ==
  /\ variant = "scraper"
  /\ \E r \in Routes :
       /\ req[r].pc = "done" /\ req[r].calls = <<"tryPostQuery">>
       /\ req[r].resp.trains = parseOebbHtml(HtmlFive)
       /\ Len(req[r].resp.trains) = 3
       /\ req[r].resp.source = "live-scraping"

\* the legs of the table entry e, as a same-day or a next-day departure
FromEntry(leg, e) ==
  LET arrivalMinutes == (e.hour * 60 + e.minute + e.duration) % 1440
  IN  /\ leg.departure = TimeString(e.hour, e.minute)
      /\ leg.arrival = TimeString(arrivalMinutes \div 60, arrivalMinutes % 60)
      /\ leg.trainNumber = e.number

\* C8: when all three strategies fail or return empty, the route handler
\* responds with source 'realistic-fallback', realTimeData false and exactly
\* 3 legs of the route's timetable, each arriving its entry's duration after
\* its departure; at 08:00 all 3 depart after 08:00.
C8_SyntheticWhenAllFail ==
  variant = "scraper" =>
    \A r \in Routes :
      EndedAllFailed(req[r]) =>
        LET resp == req[r].resp
            schedule == schedules(<<fromStation(r), toStation(r)>>)
        IN  /\ resp.source = "realistic-fallback"
            /\ resp.realTimeData = FALSE
            /\ Len(resp.trains) = 3
            /\ \A i \in 1..Len(resp.trains) :
                 \E k \in 1..Len(schedule) :
                   /\ FromEntry(resp.trains[i], schedule[k])
                   /\ (clock = 8 * 3600000 =>
                         schedule[k].hour * 60 + schedule[k].minute > 8 * 60)

\* C8 witness: at 08:00 all three strategies were invoked and failed.
C8_Witness ==
  /\ variant = "scraper"
  /\ clock = 8 * 3600000
  /\ \E r \in Routes :
       /\ EndedAllFailed(req[r]) /\ req[r].calls = Strategies
       /\ req[r].resp.source = "realistic-fallback"
       /\ req[r].resp.trains[1].departure = TimeString(8, 12)

(***************************************************************************)
(* Properties of the cached variants.                                      *)
(***************************************************************************)
\* C9: in the oebb-hafas variant, when fetchRealTrainData fails, getJourneys
\* returns the route's cached payload if there is one, whatever its age, and
\* otherwise the 3 legs of getFallbackData; it does not throw, and the
\* handler answers with what it returned.
C9_DegradedHafas ==
  [][ variant = "hafas" =>
      \A r \in CachedSlots :
        LET n == req'[r]
            entry == cache[cacheKey(n.endpoint)]
        IN  /\ (n.pc = "getJourneys" /\ req[r].pc # "getJourneys") =>
                 n.outcome.kind = "return"
            /\ (req[r].pc = "fetchRealTrainData" /\ n.pc = "getJourneys"
                  /\ req[r].outcome.kind = "throw") =>
                 /\ n.fetched = "throw"
                 /\ IF ~entry.data.isNull
                    THEN n.outcome.value = entry.data
                    ELSE /\ Len(n.outcome.value.items) = 3
                         /\ n.outcome.value.items =
                              getFallbackData(cacheKey(n.endpoint), clock, << >>).items
            /\ (req[r].pc = "getJourneys" /\ n.pc = "done" /\ n.fetched = "throw") =>
                 /\ n.resp.status = 200
                 /\ n.resp.trains = req[r].outcome.value.items
    ]_vars

\* C9 witness: a failed fetch was answered from a cache entry older than
\* CACHE_DURATION.
C9_Witness ==
  /\ variant = "hafas"
  /\ \E r \in CachedSlots :
       LET entry == cache[cacheKey(req[r].endpoint)]
       IN  /\ req[r].pc = "done" /\ req[r].fetched = "throw"
           /\ ~entry.data.isNull
           /\ clock - entry.timestamp >= CACHE_DURATION
           /\ req[r].outcome.value = entry.data
           /\ req[r].resp.trains = entry.data.items

\* C10 (as claimed): in the v3 variant a request that finds an expired
\* payload in the cache, the live methods failing, returns that payload with
\* its source tagged '-stale'; a synthetic schedule is generated only when
\* the cache holds no payload.
C10_StaleBeforeSynthetic ==
  [][ variant = "v3" =>
      \A r \in CachedSlots :
        LET n == req'[r]
            entry == cache[cacheKey(n.endpoint)]
        IN  (req[r].pc = "fetchRealTrainData" /\ n.pc = "getJourneys"
               /\ ~entry.data.isNull
               /\ ~(req[r].now - entry.timestamp < CACHE_DURATION_V3)) =>
              /\ n.outcome.value.trains = entry.data
              /\ n.outcome.value.source = Append(entry.source, "-stale")
    ]_vars

\* the time-to-live of the variant's cache
Duration(v) ==
  IF v = "v3" THEN CACHE_DURATION_V3
  ELSE IF v = "client" THEN CACHE_DURATION_CLIENT
  ELSE CACHE_DURATION

\* the list of trains getJourneys returned
Payload(outcome) == IF variant = "v3" THEN outcome.value.trains ELSE outcome.value

\* C11: in the cached variants a request that finds a payload in the cache
\* of its route, stored less than CACHE_DURATION before the request's start,
\* fetches nothing and generates nothing: getJourneys returns the cached
\* payload at once and leaves the cache as it is, the next step of the
\* request is its response with that payload, and the oebb-hafas and the v3
\* variant report cached = true.
C11_FreshHit ==
  [][ (variant = "hafas" \/ variant = "client" \/ variant = "v3") =>
      \A r \in CachedSlots :
        LET n == req'[r]
            entry == cache[cacheKey(n.endpoint)]
        IN  /\ (req[r].pc = "idle" /\ n.pc # "idle" /\ ~entry.data.isNull
                  /\ clock - entry.timestamp < Duration(variant)) =>
                 /\ n.pc = "getJourneys"
                 /\ n.fetched = "none"
                 /\ cache' = cache
                 /\ n.outcome.kind = "return"
                 /\ Payload(n.outcome) = entry.data
                 /\ (variant = "v3" =>
                       /\ n.outcome.value.cached = TRUE
                       /\ n.outcome.value.source = entry.source)
            /\ (req[r].pc = "getJourneys" /\ req[r].fetched = "none" /\ n # req[r]) =>
                 n.pc = "done"
            /\ (req[r].pc # "done" /\ n.pc = "done" /\ n.fetched = "none") =>
                 /\ req[r].pc = "getJourneys"
                 /\ cache' = cache
                 /\ n.outcome = req[r].outcome
                 /\ n.resp.status = 200
                 /\ n.resp.trains = Payload(n.outcome).items
                 /\ (variant # "client" =>
                       /\ n.resp.cached = TRUE
                       /\ n.resp.trains = entry.data.items)
    ]_vars

\* C11 witness: a request that started one tick after the fetch that filled
\* the cache, inside the time-to-live, was answered from the cache.
C11_Witness ==
  /\ variant = "hafas"
  /\ \E r \in CachedSlots :
       LET entry == cache[cacheKey(req[r].endpoint)]
       IN  /\ req[r].pc = "done" /\ req[r].fetched = "none"
           /\ ~entry.data.isNull
           /\ clock - entry.timestamp > 0
           /\ clock - entry.timestamp < CACHE_DURATION
           /\ req[r].outcome.value = entry.data
           /\ req[r].resp.trains = entry.data.items
           /\ req[r].resp.cached

\* where a request is while it is inside fetchRealTrainData
FetchStages == {"journeys", "tryOebbWebScraping", "tryThirdPartyAPIs"}

\* C12 (as claimed): in the cached variants no two requests for the same
\* route are inside fetchRealTrainData at the same time: a request arriving
\* while a fetch for its route is in flight starts no second fetch.
C12_OneFetchPerRoute ==
  variant \in {"hafas", "v3"} =>
    \A a, b \in CachedSlots :
      (a # b /\ req[a].pc \in FetchStages /\ req[b].pc \in FetchStages) =>
        req[a].endpoint # req[b].endpoint

\* the route whose handler names cache key k
RouteOfKey(k) == IF k = "linzStp" THEN "linz-stpoelten" ELSE "stpoelten-linz"

\* C13: the cached variants keep one cache entry per route.  A step that
\* changes the entry of a route is the step in which getJourneys of a
\* request for that very route goes on after its fetch, and it leaves the
\* entry of the other route as it was; a request served from the cache (a
\* hit on arrival, or the old entry after a failed fetch) gets the payload
\* of its own route's entry and is answered with it.
C13_RouteFrame ==
  [][ (variant # "scraper") =>
      /\ \A k \in CacheKeys :
           cache'[k] # cache[k] =>
             /\ \E r \in CachedSlots :
                  /\ req'[r].pc = "getJourneys"
                  /\ req[r].pc = (IF variant = "client" THEN "journeys"
                                  ELSE "fetchRealTrainData")
                  /\ req'[r].endpoint = RouteOfKey(k)
             /\ \A j \in CacheKeys \ {k} : cache'[j] = cache[j]
      /\ \A r \in CachedSlots :
           LET n == req'[r]
               served == \/ req[r].pc = "idle"
                         \/ /\ variant = "hafas"
                            /\ req[r].pc = "fetchRealTrainData"
                            /\ req[r].outcome.kind = "throw"
                            /\ ~cache[cacheKey(n.endpoint)].data.isNull
           IN  /\ (n.pc = "getJourneys" /\ served) =>
                    \E k \in CacheKeys :
                      /\ n.endpoint = RouteOfKey(k)
                      /\ Payload(n.outcome) = cache[k].data
               /\ (req[r].pc = "getJourneys" /\ n.pc = "done"
                     /\ n.resp.status = 200) =>
                    n.resp.trains = Payload(req[r].outcome).items
    ]_vars

\* C13 witness: both routes have an entry; a request for St. Poelten - Linz
\* has just stored a later fetch while the entry of Linz - St. Poelten still
\* holds its older payload and timestamp.
C13_Witness ==
  /\ variant = "client"
  /\ ~cache["linzStp"].data.isNull
  /\ ~cache["stpLinz"].data.isNull
  /\ cache["linzStp"].timestamp > 0
  /\ cache["stpLinz"].timestamp > cache["linzStp"].timestamp
  /\ cache["stpLinz"].data.items # cache["linzStp"].data.items
  /\ \E r \in CachedSlots :
       /\ req[r].pc = "done" /\ req[r].fetched = "return"
       /\ req[r].endpoint = "stpoelten-linz"
       /\ req[r].resp.trains = cache["stpLinz"].data.items

\* the legs of the response slot r holds (none while it holds no response
\* or an error response)
Legs(r) ==
  IF req[r].pc = "done" /\ "trains" \in DOMAIN req[r].resp
  THEN req[r].resp.trains ELSE << >>

\* the delay a leg reports, in minutes, as a fraction
DelayMinutes(leg) ==
  IF "delay" \in DOMAIN leg THEN [num |-> leg.delay, den |-> 1] ELSE leg.delayMinutes

\* C14 (as claimed): the status of every leg of every response follows from
\* its delay alone: 0 minutes is 'on-time', 1 to 5 minutes is
\* 'slightly-delayed', more than 5 minutes is 'delayed', and there is no
\* other status.
C14_StatusFromDelay ==
  \A r \in DOMAIN req :
    \A i \in 1..Len(Legs(r)) :
      LET leg == Legs(r)[i]
          d == DelayMinutes(leg)
      IN  /\ leg.status \in {"on-time", "slightly-delayed", "delayed"}
          /\ (d.num = 0 => leg.status = "on-time")
          /\ ((d.num >= d.den /\ d.num <= 5 * d.den) => leg.status = "slightly-delayed")
          /\ (d.num > 5 * d.den => leg.status = "delayed")

\* C15 (as claimed): the delay of every leg of every response is a whole,
\* non-negative number of minutes, whatever departure delay in seconds the
\* upstream reported (early departures, delays that are no multiple of 60)
\* and whatever the synthetic draw was.
C15_DelayNonNegativeInteger ==
  \A r \in DOMAIN req :
    \A i \in 1..Len(Legs(r)) :
      LET d == DelayMinutes(Legs(r)[i])
      IN  d.num >= 0 /\ d.num % d.den = 0

\* C16: whichever path produced it (a live strategy and its parser, a cache
\* hit, a stale cache entry, a synthetic schedule), a response carries at
\* most 3 legs.
C16_AtMostThreeLegs ==
  \A r \in DOMAIN req : Len(Legs(r)) <= 3

\* C16 witness: hafas.journeys() had answered four journeys, of which three
\* were stored; after the time-to-live a fetch failed and the request was
\* answered with the three legs of the old entry.
C16_Witness ==
  /\ variant = "hafas"
  /\ \E r \in CachedSlots :
       LET entry == cache[cacheKey(req[r].endpoint)]
       IN  /\ req[r].pc = "done" /\ req[r].fetched = "throw"
           /\ clock - entry.timestamp >= CACHE_DURATION
           /\ req[r].outcome = Return(entry.data)
           /\ Len(req[r].resp.trains) = 3

(***************************************************************************)
(* The generators and the parsers on their own: each is called once, the   *)
(* generators at any minute of the day and with any outcome of their       *)
(* random draws, the parsers on any of the sample documents.               *)
(***************************************************************************)
MinutesPerDay == 24 * 60

\* outcomes of Math.random() for the three legs: no delay, the shortest
\* delay of the rush hours (no delay at other hours), the longest delay
PureRandomStreams ==
  { <<a, b, c>> : a, b, c \in { <<0, 0>>, <<71, 0>>, <<99, 99>> } }

(***************************************************************************)
(* Static-schedule iteration (src/server.js 1-130): getNextTrains.         *)
(***************************************************************************)
stPoeltenToLinzSchedule ==
  << [departure |-> <<"0","5",":","4","2">>, arrival |-> <<"0","6",":","5","3">>,
      train |-> <<"R","J"," ","5","4","0">>, type |-> "RJ", platform |-> "2"],
     [departure |-> <<"0","6",":","4","2">>, arrival |-> <<"0","7",":","5","3">>,
      train |-> <<"R","J"," ","5","4","2">>, type |-> "RJ", platform |-> "2"],
     [departure |-> <<"0","7",":","4","2">>, arrival |-> <<"0","8",":","5","3">>,
      train |-> <<"R","J"," ","5","4","4">>, type |-> "RJ", platform |-> "2"],
     [departure |-> <<"0","8",":","4","2">>, arrival |-> <<"0","9",":","5","3">>,
      train |-> <<"R","J"," ","5","4","6">>, type |-> "RJ", platform |-> "2"],
     [departure |-> <<"0","9",":","4","2">>, arrival |-> <<"1","0",":","5","3">>,
      train |-> <<"R","J"," ","5","4","8">>, type |-> "RJ", platform |-> "2"],
     [departure |-> <<"1","0",":","4","2">>, arrival |-> <<"1","1",":","5","3">>,
      train |-> <<"R","J"," ","5","5","0">>, type |-> "RJ", platform |-> "2"],
     [departure |-> <<"1","1",":","4","2">>, arrival |-> <<"1","2",":","5","3">>,
      train |-> <<"R","J"," ","5","5","2">>, type |-> "RJ", platform |-> "2"],
     [departure |-> <<"1","2",":","4","2">>, arrival |-> <<"1","3",":","5","3">>,
      train |-> <<"R","J"," ","5","5","4">>, type |-> "RJ", platform |-> "2"],
     [departure |-> <<"1","3",":","4","2">>, arrival |-> <<"1","4",":","5","3">>,
      train |-> <<"R","J"," ","5","5","6">>, type |-> "RJ", platform |-> "2"],
     [departure |-> <<"1","4",":","4","2">>, arrival |-> <<"1","5",":","5","3">>,
      train |-> <<"R","J"," ","5","5","8">>, type |-> "RJ", platform |-> "2"],
     [departure |-> <<"1","5",":","4","2">>, arrival |-> <<"1","6",":","5","3">>,
      train |-> <<"R","J"," ","5","6","0">>, type |-> "RJ", platform |-> "2"],
     [departure |-> <<"1","6",":","4","2">>, arrival |-> <<"1","7",":","5","3">>,
      train |-> <<"R","J"," ","5","6","2">>, type |-> "RJ", platform |-> "2"],
     [departure |-> <<"1","7",":","4","2">>, arrival |-> <<"1","8",":","5","3">>,
      train |-> <<"R","J"," ","5","6","4">>, type |-> "RJ", platform |-> "2"],
     [departure |-> <<"1","8",":","4","2">>, arrival |-> <<"1","9",":","5","3">>,
      train |-> <<"R","J"," ","5","6","6">>, type |-> "RJ", platform |-> "2"],
     [departure |-> <<"1","9",":","4","2">>, arrival |-> <<"2","0",":","5","3">>,
      train |-> <<"R","J"," ","5","6","8">>, type |-> "RJ", platform |-> "2"],
     [departure |-> <<"2","0",":","4","2">>, arrival |-> <<"2","1",":","5","3">>,
      train |-> <<"R","J"," ","5","7","0">>, type |-> "RJ", platform |-> "2"],
     [departure |-> <<"2","1",":","4","2">>, arrival |-> <<"2","2",":","5","3">>,
      train |-> <<"R","J"," ","5","7","2">>, type |-> "RJ", platform |-> "2"] >>

linzToStPoeltenSchedule ==
  << [departure |-> <<"0","5",":","0","7">>, arrival |-> <<"0","6",":","1","8">>,
      train |-> <<"R","J"," ","5","4","1">>, type |-> "RJ", platform |-> "1"],
     [departure |-> <<"0","6",":","0","7">>, arrival |-> <<"0","7",":","1","8">>,
      train |-> <<"R","J"," ","5","4","3">>, type |-> "RJ", platform |-> "1"],
     [departure |-> <<"0","7",":","0","7">>, arrival |-> <<"0","8",":","1","8">>,
      train |-> <<"R","J"," ","5","4","5">>, type |-> "RJ", platform |-> "1"],
     [departure |-> <<"0","8",":","0","7">>, arrival |-> <<"0","9",":","1","8">>,
      train |-> <<"R","J"," ","5","4","7">>, type |-> "RJ", platform |-> "1"],
     [departure |-> <<"0","9",":","0","7">>, arrival |-> <<"1","0",":","1","8">>,
      train |-> <<"R","J"," ","5","4","9">>, type |-> "RJ", platform |-> "1"],
     [departure |-> <<"1","0",":","0","7">>, arrival |-> <<"1","1",":","1","8">>,
      train |-> <<"R","J"," ","5","5","1">>, type |-> "RJ", platform |-> "1"],
     [departure |-> <<"1","1",":","0","7">>, arrival |-> <<"1","2",":","1","8">>,
      train |-> <<"R","J"," ","5","5","3">>, type |-> "RJ", platform |-> "1"],
     [departure |-> <<"1","2",":","0","7">>, arrival |-> <<"1","3",":","1","8">>,
      train |-> <<"R","J"," ","5","5","5">>, type |-> "RJ", platform |-> "1"],
     [departure |-> <<"1","3",":","0","7">>, arrival |-> <<"1","4",":","1","8">>,
      train |-> <<"R","J"," ","5","5","7">>, type |-> "RJ", platform |-> "1"],
     [departure |-> <<"1","4",":","0","7">>, arrival |-> <<"1","5",":","1","8">>,
      train |-> <<"R","J"," ","5","5","9">>, type |-> "RJ", platform |-> "1"],
     [departure |-> <<"1","5",":","0","7">>, arrival |-> <<"1","6",":","1","8">>,
      train |-> <<"R","J"," ","5","6","1">>, type |-> "RJ", platform |-> "1"],
     [departure |-> <<"1","6",":","0","7">>, arrival |-> <<"1","7",":","1","8">>,
      train |-> <<"R","J"," ","5","6","3">>, type |-> "RJ", platform |-> "1"],
     [departure |-> <<"1","7",":","0","7">>, arrival |-> <<"1","8",":","1","8">>,
      train |-> <<"R","J"," ","5","6","5">>, type |-> "RJ", platform |-> "1"],
     [departure |-> <<"1","8",":","0","7">>, arrival |-> <<"1","9",":","1","8">>,
      train |-> <<"R","J"," ","5","6","7">>, type |-> "RJ", platform |-> "1"],
     [departure |-> <<"1","9",":","0","7">>, arrival |-> <<"2","0",":","1","8">>,
      train |-> <<"R","J"," ","5","6","9">>, type |-> "RJ", platform |-> "1"],
     [departure |-> <<"2","0",":","0","7">>, arrival |-> <<"2","1",":","1","8">>,
      train |-> <<"R","J"," ","5","7","1">>, type |-> "RJ", platform |-> "1"],
     [departure |-> <<"2","1",":","0","7">>, arrival |-> <<"2","2",":","1","8">>,
      train |-> <<"R","J"," ","5","7","3">>, type |-> "RJ", platform |-> "1"] >>

\* `Math.random() > 0.7 ? Math.floor(Math.random() * 10) : 0`
StaticDelay(draw) == IF draw[1] > 70 THEN (draw[2] * 10) \div 100 ELSE 0

\* the leg getNextTrains makes of a table entry (lines 69-83)
StaticLeg(train, draw) ==
  LET delay == StaticDelay(draw)
  IN  [ departure |-> train.departure,
        arrival |-> train.arrival,
        trainType |-> train.type,
        trainNumber |-> train.train,
        delay |-> delay,
        status |-> IF delay = 0 THEN "on-time"
                   ELSE IF delay <= 5 THEN "slightly-delayed" ELSE "delayed",
        platform |-> train.platform ]

\* `train.departure.split(':').map(Number)` turned into minutes
trainTime(train) ==
  LET parts == splitColon(train.departure)
  IN  Number(parts[1]) * 60 + Number(parts[2])

\* (variation: no entries of tomorrow are added)
getNextTrains_todayOnly(schedule, now, rnd) ==
  LET currentTime == getHours(now) * 60 + getMinutes(now)
      later == SelectSeq(schedule, LAMBDA train : trainTime(train) > currentTime)
      nextTrains == SubSeq(later, 1, Min(3, Len(later)))
  IN  [i \in 1..Len(nextTrains) |-> StaticLeg(nextTrains[i], rnd[i])]

\* getNextTrains(schedule) at clock reading `now`, rnd[i] being the outcomes
\* of Math.random() for leg i
getNextTrains(schedule, now, rnd) ==
  LET currentTime == getHours(now) * 60 + getMinutes(now)
      later == SelectSeq(schedule, LAMBDA train : trainTime(train) > currentTime)
      today == SubSeq(later, 1, Min(3, Len(later)))
      remainingCount == 3 - Len(today)
      nextTrains == IF Len(today) < 3
                    THEN today \o SubSeq(schedule, 1, Min(remainingCount, Len(schedule)))
                    ELSE today
  IN  [i \in 1..Len(nextTrains) |-> StaticLeg(nextTrains[i], rnd[i])]

\* the table the static route handlers pass (lines 86-102)
StaticSchedule(route) ==
  IF route = "stpoelten-linz" THEN stPoeltenToLinzSchedule ELSE linzToStPoeltenSchedule

HtmlDocuments == {HtmlNone, HtmlOne, HtmlFive, HtmlBreak}
MgateAnswers == {MgateNone, MgateOne, MgateFour, MgateGap, MgateNoCommon}

InitPure ==
  /\ variant = "pure"
  /\ clock \in { m * 60000 : m \in 0..(MinutesPerDay - 1) }
  /\ ticks = 0
  /\ hafas = FALSE
  /\ isScrapingInProgress = FALSE
  /\ cache = << >>
  /\ req = [r \in {"call"} |-> IdleReq]

\* the call of fn for `route` at the current clock reading, with the
\* outcomes `draws` of its calls to Math.random(), returns legs
CallReturns(fn, route, draws, legs) ==
  /\ req["call"].pc = "idle"
  /\ req' = [req EXCEPT !["call"] =
               [@ EXCEPT !.pc = "done", !.endpoint = route, !.now = clock,
                         !.calls = <<fn>>,
                         !.resp = [status |-> 200, trains |-> legs, draws |-> draws]]]
  /\ UNCHANGED <<variant, clock, ticks, hafas, isScrapingInProgress, cache>>

CallEmergencyFallback ==
  \E route \in Routes, rnd \in PureRandomStreams :
    CallReturns("getEmergencyFallback", route, rnd,
                getEmergencyFallback(fromStation(route), toStation(route), clock, rnd))

CallRealisticSchedule ==
  \E route \in Routes, rnd \in PureRandomStreams :
    CallReturns("generateRealisticSchedule", route, rnd,
                generateRealisticSchedule(fromStation(route), toStation(route), clock, rnd,
                                          <<"call", clock>>).items)

CallNextTrains ==
  \E route \in Routes, rnd \in PureRandomStreams :
    CallReturns("getNextTrains", route, rnd, getNextTrains(StaticSchedule(route), clock, rnd))

CallFallbackData ==
  \E route \in Routes :
    CallReturns("getFallbackData", route, << >>,
                getFallbackData(route, clock, <<"call", clock>>).items)

CallParseOebbHtml ==
  \E html \in HtmlDocuments :
    CallReturns("parseOebbHtml", "", << >>, parseOebbHtml(html))

CallParseStationBoard ==
  \E html \in HtmlDocuments, route \in Routes :
    CallReturns("parseStationBoard", route, << >>, parseStationBoard(html, toStation(route)))

CallParseMgateResponse ==
  \E data \in MgateAnswers :
    CallReturns("parseMgateResponse", "", << >>, parseMgateResponse(data).value)

\* the train codes, as text and as the value the two functions return
TrainCodes ==
  << [text |-> <<"R","J","X">>, type |-> "RJX"], [text |-> <<"I","C","E">>, type |-> "ICE"],
     [text |-> <<"W","B">>, type |-> "WB"], [text |-> <<"N","J">>, type |-> "NJ"],
     [text |-> <<"R","E","X">>, type |-> "REX"], [text |-> <<"I","C">>, type |-> "IC"],
     [text |-> <<"R","J">>, type |-> "RJ"], [text |-> <<"D">>, type |-> "D"],
     [text |-> <<"S">>, type |-> "S"], [text |-> <<"R">>, type |-> "R"] >>

\* a code in upper case, in lower case, capitalised, and with the first
\* letter alone in lower case
LetterCases(text) ==
  { toUpperCase(text), toLowerCase(text),
    toUpperCase(SubSeq(text, 1, 1)) \o toLowerCase(SubSeq(text, 2, Len(text))),
    toLowerCase(SubSeq(text, 1, 1)) \o toUpperCase(SubSeq(text, 2, Len(text))) }

TrainNumbers == { <<"1">>, <<"5","4","0">>, <<"1","2","3","4">> }

\* designators that hold none of the patterns of the two functions
NoPatternDesignators ==
  { <<"5","4","0">>, <<"T","r","a","m"," ","3">>, <<"U","4">> }

\* '<code> <number>' for the code TrainCodes[k], in every letter case
DesignatorsOf(k) ==
  { text \o <<" ">> \o number : text \in LetterCases(TrainCodes[k].text),
                               number \in TrainNumbers }

Designators ==
  UNION { DesignatorsOf(k) : k \in 1..Len(TrainCodes) }
    \cup NoPatternDesignators \cup { << >> }

\* extractTrainType and getTrainType called on their own, on a designator
InitCalls ==
  /\ variant = "calls"
  /\ clock = 0
  /\ ticks = 0
  /\ hafas = FALSE
  /\ isScrapingInProgress = FALSE
  /\ cache = << >>
  /\ req = [r \in {"call"} |-> IdleReq]

\* the call fn(designator) returns type
TypeReturns(fn, designator, type) ==
  /\ variant = "calls"
  /\ req["call"].pc = "idle"
  /\ req' = [req EXCEPT !["call"] =
               [@ EXCEPT !.pc = "done", !.now = clock, !.calls = <<fn>>,
                         !.resp = [status |-> 200, designator |-> designator,
                                   type |-> type]]]
  /\ UNCHANGED <<variant, clock, ticks, hafas, isScrapingInProgress, cache>>

CallExtractTrainType ==
  \E trainName \in Designators :
    TypeReturns("extractTrainType", trainName, extractTrainType(trainName))

CallGetTrainType ==
  \E productName \in Designators :
    TypeReturns("getTrainType", productName, getTrainType(productName))

NextCalls ==
  \/ CallExtractTrainType
  \/ CallGetTrainType

SpecCalls == InitCalls /\ [][NextCalls]_vars

NextPure ==
  \/ CallNextTrains
  \/ CallEmergencyFallback
  \/ CallRealisticSchedule
  \/ CallFallbackData
  \/ CallParseOebbHtml
  \/ CallParseStationBoard
  \/ CallParseMgateResponse

SpecPure == InitPure /\ [][NextPure]_vars

\* the minute of the day a text HH:MM names
MinuteOfDay(text) == Number(SubSeq(text, 1, 2)) * 60 + Number(SubSeq(text, 4, 5))

\* the timetable a generator draws from
TableOf(fn, route) ==
  IF fn = "getEmergencyFallback"
  THEN schedules(<<fromStation(route), toStation(route)>>)
  ELSE IF route = "stpoelten-linz" THEN PatternStpLinz ELSE PatternLinzStp

\* the call that was made, if any, is one of fns
Called(fns) == req["call"].pc = "done" /\ req["call"].calls[1] \in fns

\* C17: for both routes, at every minute of the day, getEmergencyFallback
\* and generateRealisticSchedule return 1 to 3 legs; first the departures of
\* today, each strictly later than the current minute, then the departures of
\* tomorrow, which are the first entries of the timetable in order, marked
\* 'scheduled', and present only if fewer than 3 departures remain today.
C17_OneToThreeUpcoming ==
  Called({"getEmergencyFallback", "generateRealisticSchedule"}) =>
    LET q == req["call"]
        legs == q.resp.trains
        currentMinutes == getHours(q.now) * 60 + getMinutes(q.now)
        table == TableOf(q.calls[1], q.endpoint)
        remaining == Cardinality({ i \in 1..Len(table) :
                                     table[i].hour * 60 + table[i].minute > currentMinutes })
        k == Cardinality({ i \in 1..Len(legs) : legs[i].status = "scheduled" })
    IN  /\ Len(legs) \in 1..3
        /\ \A i \in 1..(Len(legs) - k) :
             /\ legs[i].status # "scheduled"
             /\ MinuteOfDay(legs[i].departure) > currentMinutes
        /\ \A i \in 1..k :
             /\ legs[Len(legs) - k + i].status = "scheduled"
             /\ legs[Len(legs) - k + i].departure = TimeString(table[i].hour, table[i].minute)
        /\ (k > 0 => remaining < 3 /\ Len(legs) - k = remaining)

\* C17 witness: late in the evening generateRealisticSchedule returned one
\* departure of today followed by the first two of tomorrow.
C17_Witness ==
  /\ Called({"generateRealisticSchedule"})
  /\ LET legs == req["call"].resp.trains
     IN  /\ Len(legs) = 3
         /\ legs[1].status # "scheduled"
         /\ legs[2].status = "scheduled" /\ legs[3].status = "scheduled"
         /\ MinuteOfDay(legs[1].departure)
              > getHours(req["call"].now) * 60 + getMinutes(req["call"].now)
         /\ MinuteOfDay(legs[2].departure) < MinuteOfDay(legs[1].departure)

\* C18 (as claimed): at every minute of the day getFallbackData returns
\* exactly 3 legs, each departing strictly later than the current minute; a
\* departure computed past midnight shows as a time of day before the
\* current one and counts as a departure of tomorrow.
C18_ThreeUpcoming ==
  Called({"getFallbackData"}) =>
    LET q == req["call"]
        legs == q.resp.trains
        currentMinutes == getHours(q.now) * 60 + getMinutes(q.now)
    IN  /\ Len(legs) = 3
        /\ \A i \in 1..Len(legs) :
             \/ MinuteOfDay(legs[i].departure) > currentMinutes
             \/ MinuteOfDay(legs[i].departure) < currentMinutes

\* text of the form HH:MM
IsTimeOfDay(text) ==
  /\ Len(text) = 5
  /\ text[3] = ":"
  /\ \A i \in {1, 2, 4, 5} : text[i] \in DigitSet

\* the arrival HH:MM that lies `duration` minutes after the departure
ArrivalAfter(departure, duration) ==
  LET arrivalMinutes == (MinuteOfDay(departure) + duration) % MinutesPerDay
  IN  TimeString(arrivalMinutes \div 60, arrivalMinutes % 60)

\* leg was built by fn for `route` and arrives its journey time after it
\* departs: the duration of its timetable entry for the two timetable
\* generators, 71 minutes for getFallbackData and the HTML parsers
ArrivalFollowsDeparture(fn, route, leg) ==
  /\ IsTimeOfDay(leg.departure)
  /\ IF fn \in {"getEmergencyFallback", "generateRealisticSchedule"}
     THEN \E i \in 1..Len(TableOf(fn, route)) :
            LET e == TableOf(fn, route)[i]
            IN  /\ leg.departure = TimeString(e.hour, e.minute)
                /\ leg.arrival = ArrivalAfter(leg.departure, e.duration)
     ELSE leg.arrival = ArrivalAfter(leg.departure, 71)

\* C19 (as claimed): every arrival that getEmergencyFallback,
\* generateRealisticSchedule, getFallbackData, parseOebbHtml or
\* parseStationBoard synthesizes is the time of day (departure minutes +
\* journey duration) mod 1440 as HH:MM, for departures of today and of
\* tomorrow alike, also when the arrival lies past midnight.
C19_ArrivalIsDeparturePlusDuration ==
  Called({"getEmergencyFallback", "generateRealisticSchedule", "getFallbackData",
          "parseOebbHtml", "parseStationBoard"}) =>
    \A i \in 1..Len(req["call"].resp.trains) :
      ArrivalFollowsDeparture(req["call"].calls[1], req["call"].endpoint,
                              req["call"].resp.trains[i])

\* the minute at which a leg actually departs, counted from the start of
\* today: its scheduled departure plus its delay, a day later for a leg
\* marked as a departure of tomorrow
ActualDeparture(leg) ==
  MinuteOfDay(leg.departure) + leg.delay
    + (IF leg.status = "scheduled" THEN MinutesPerDay ELSE 0)

\* C20 (as claimed): the legs of every response of the scraper, the
\* oebb-hafas variant and the v3 variant, whether they come from a live
\* parser or from a synthetic generator, are in ascending order of actual
\* departure (scheduled departure + delay), a departure of tomorrow being
\* later than any departure of today.
C20_AscendingActualDeparture ==
  variant # "client" =>
    \A r \in DOMAIN req :
      \A i, j \in 1..Len(Legs(r)) :
        (/\ i < j
         /\ IsTimeOfDay(Legs(r)[i].departure) /\ Legs(r)[i].delay # NaN
         /\ IsTimeOfDay(Legs(r)[j].departure) /\ Legs(r)[j].delay # NaN)
          => ActualDeparture(Legs(r)[i]) <= ActualDeparture(Legs(r)[j])

\* C21: every leg of getEmergencyFallback and generateRealisticSchedule has
\* delay 0 or a whole number of minutes from 1 to 12 when the current hour
\* is 7-9 or 17-19 and from 1 to 8 at any other hour; a leg of tomorrow has
\* delay 0; whether a leg of today is delayed follows from the leg's own
\* draw and from no other leg's.
C21_BoundedIndependentDelay ==
  Called({"getEmergencyFallback", "generateRealisticSchedule"}) =>
    LET q == req["call"]
        legs == q.resp.trains
        currentHour == getHours(q.now)
        isRushHour == currentHour \in (7..9) \cup (17..19)
    IN  \A i \in 1..Len(legs) :
          /\ legs[i].delay \in 0..(IF isRushHour THEN 12 ELSE 8)
          /\ IF legs[i].status = "scheduled"
             THEN legs[i].delay = 0
             ELSE legs[i].delay > 0 <=>
                    q.resp.draws[i][1] > (IF isRushHour THEN 70 ELSE 85)

\* C21 witness: in a rush hour getEmergencyFallback returned the longest
\* delay, no delay and the shortest delay in one list.
C21_Witness ==
  /\ Called({"getEmergencyFallback"})
  /\ getHours(req["call"].now) = 8
  /\ LET legs == req["call"].resp.trains
     IN  /\ Len(legs) = 3
         /\ legs[1].delay = 12 /\ legs[2].delay = 0 /\ legs[3].delay = 1

\* every strategy, for every answer of the upstream, ends by returning null
\* or a list, and parseMgateResponse by returning a list
StrategiesReturn ==
  /\ \A i \in 1..Len(Strategies) : \A u \in Upstream :
       \A station \in stationIds :
       LET ended == callStrategy(Strategies[i], station, u)
       IN  ended.kind = "return" /\ (ended.value.isNull \/ ended.value.ref = <<Strategies[i]>>)
  /\ \A data \in MgateAnswers : parseMgateResponse(data).kind = "return"

\* C22: no strategy and no parser lets an exception reach scrapeOebbData,
\* whatever the upstream answers: a strategy that ends without trains is
\* followed by the next strategy, or after the last one by the error 'All
\* scraping methods failed', and a strategy that ends with trains ends the
\* call with these trains.
C22_StrategiesNeverThrow ==
  [][ variant = "scraper" =>
      /\ StrategiesReturn
      /\ \A r \in ScraperEndpoints :
           LET name == req[r].pc
           IN  (InTry(r) /\ req'[r].pc # name) =>
                 \/ /\ req'[r].pc = nextStrategy(name)
                    /\ ~hasTrains(req'[r].ret)
                 \/ /\ req'[r].pc = "done"
                    /\ req'[r].outcome.kind = "return"
                    /\ hasTrains(req'[r].outcome.value)
                    /\ req'[r].outcome.value.ref = <<name>>
                 \/ /\ req'[r].pc = "done"
                    /\ nextStrategy(name) = "none"
                    /\ ~hasTrains(req'[r].ret)
                    /\ req'[r].outcome = Throw(AllFailedMessage)
    ]_vars

\* C22 witness: the request of tryPostQuery failed, tryStationBoard threw
\* inside its try block, the request of tryMgateEndpoint failed; each
\* returned null and scrapeOebbData ended with 'All scraping methods failed'.
C22_Witness ==
  /\ variant = "scraper"
  /\ \E r \in ScraperEndpoints :
       /\ req[r].pc = "done"
       /\ req[r].calls = Strategies
       /\ req[r].ret = JsNull
       /\ req[r].outcome = Throw(AllFailedMessage)
       /\ tryPostQueryTry([kind |-> "error"]).kind = "throw"
       /\ tryMgateEndpointTry([kind |-> "error"]).kind = "throw"

\* C23: for every designator '<code> <number>' whose code is one of RJX,
\* ICE, WB, NJ, REX, IC, RJ, D, S, R, in any letter case, extractTrainType
\* and getTrainType return exactly that code; for the empty designator and
\* for one that holds none of the patterns they return 'Train'.
C23_ExactTrainType ==
  Called({"extractTrainType", "getTrainType"}) =>
    LET designator == req["call"].resp.designator
        type == req["call"].resp.type
    IN  /\ \A k \in 1..Len(TrainCodes) :
             designator \in DesignatorsOf(k) => type = TrainCodes[k].type
        /\ designator \in NoPatternDesignators \cup { << >> } => type = "Train"

\* C23 witness: extractTrainType returned RJX for 'rjx 540' (getTrainType
\* returns REX for 'Rex 1' and Train for the empty designator).
C23_Witness ==
  /\ Called({"extractTrainType"})
  /\ req["call"].resp.designator = <<"r","j","x"," ","5","4","0">>
  /\ req["call"].resp.type = "RJX"
  /\ getTrainType(<<"R","e","x"," ","1">>) = "REX"
  /\ getTrainType(<< >>) = "Train"

\* C25: a call that fails with the busy error leaves isScrapingInProgress
\* as it was, held, and leaves the holder inside its try block; the gate is
\* cleared only by the step in which the call that set it leaves its try
\* block.
C25_BusyLeavesGate ==
  [][ variant = "scraper" =>
      /\ \A r \in ScraperEndpoints :
           (~EndedBusy(req[r]) /\ EndedBusy(req'[r])) =>
             /\ isScrapingInProgress /\ isScrapingInProgress'
             /\ \E h \in ScraperEndpoints \ {r} : InTry(h) /\ req'[h] = req[h]
      /\ (isScrapingInProgress /\ ~isScrapingInProgress') =>
           \E h \in ScraperEndpoints :
             /\ InTry(h) /\ req'[h].pc = "done" /\ ~EndedBusy(req'[h])
             /\ \A o \in ScraperEndpoints \ {h} : ~InTry(o) /\ req'[o] = req[o]
    ]_vars

\* C25 witness: a call ended with the busy error while another call is still
\* inside its try block and holds the gate.
C25_Witness ==
  /\ variant = "scraper"
  /\ isScrapingInProgress
  /\ \E r, h \in ScraperEndpoints :
       /\ EndedBusy(req[r]) /\ req[r].calls = << >>
       /\ InTry(h) /\ req[h].foundFree

\* C26 (as claimed): in the hafas-client and the oebb-hafas variant an
\* acquisition that failed leaves every cache entry as it was; an entry changes only in the step in which getJourneys of a
\* request for its route goes on after a successful acquisition, to that
\* request's trains and start time; and an entry that holds trains never
\* goes back to holding none, neither null nor an empty list.
C26_FailureLeavesCache ==
  [][ (variant = "hafas" \/ variant = "client") =>
      LET settles(r) ==
            /\ req'[r].pc = "getJourneys"
            /\ req[r].pc = (IF variant = "client" THEN "journeys"
                            ELSE "fetchRealTrainData")
      IN  /\ \A r \in CachedSlots :
               (settles(r) /\ req'[r].fetched # "return") => cache' = cache
          /\ \A k \in DOMAIN cache :
               /\ cache'[k] # cache[k] =>
                    \E r \in CachedSlots :
                      /\ settles(r)
                      /\ req'[r].fetched = "return"
                      /\ cacheKey(req'[r].endpoint) = k
                      /\ cache'[k] = [data |-> req'[r].outcome.value,
                                      timestamp |-> req[r].now]
               /\ ~cache[k].data.isNull =>
                    /\ ~cache'[k].data.isNull
                    /\ Len(cache[k].data.items) > 0 => Len(cache'[k].data.items) > 0
    ]_vars

\* C27: in a /trains response of the oebb-hafas variant `cached` is true
\* exactly when the trains come from the cache and the request made no
\* successful acquisition (fresh hit, or stale entry after a failure); it is
\* false when the trains were just fetched or made by getFallbackData.
C27_CachedMeansFromCache ==
  variant = "hafas" =>
    \A r \in CachedSlots :
      (req[r].pc = "done" /\ req[r].resp.status = 200) =>
        (req[r].resp.cached <=>
           /\ req[r].fetched # "return"
           /\ req[r].outcome.value.ref[1] = "fetch")

\* C28: in the oebb-hafas and the v3 variant, when a successful acquisition
\* writes a cache entry, the entry is fresh at that moment (the time since
\* its timestamp is below the time-to-live), however long the acquisition
\* took.
C28_FreshWhenWritten ==
  [][ (variant = "hafas" \/ variant = "v3") =>
      \A k \in DOMAIN cache :
        cache'[k] # cache[k] => clock' - cache'[k].timestamp < Duration(variant)
    ]_vars

\* C29: in the cached variants the timestamp of a route's cache entry never
\* decreases, whatever the order in which overlapping requests for the
\* route start and complete their fetches.
C29_TimestampMonotone ==
  [][ (variant = "hafas" \/ variant = "client" \/ variant = "v3") =>
      \A k \in DOMAIN cache : cache'[k].timestamp >= cache[k].timestamp
    ]_vars

\* C30: in every cached variant a cache entry that holds data holds a list
\* of 1 to 3 legs, never an empty list.
C30_CacheNeverEmptyList ==
  (variant = "hafas" \/ variant = "client" \/ variant = "v3") =>
    \A k \in DOMAIN cache :
      ~cache[k].data.isNull => Len(cache[k].data.items) \in 1..3

\* C31: in the v3 variant every leg of today (status other than
\* 'scheduled') of a /trains response departs strictly after the minute in
\* which the request is made, also when the response comes from the cache.
C31_DepartsAfterRequest ==
  [][ variant = "v3" =>
      \A r \in CachedSlots :
        (req[r].pc = "getJourneys" /\ req'[r].pc = "done" /\ req'[r].resp.status = 200) =>
          \A i \in 1..Len(req'[r].resp.trains) :
            LET leg == req'[r].resp.trains[i]
            IN  leg.status # "scheduled" =>
                  MinuteOfDay(leg.departure) > getHours(clock) * 60 + getMinutes(clock)
    ]_vars

\* C32: for both timetables and every current time getNextTrains returns
\* exactly 3 legs: the entries that depart strictly after the current
\* minute, in table order and at most 3, followed by entries from the start
\* of the table when fewer than 3 remain today; each leg has a delay from 0
\* to 9 and the arrival and the platform of its table entry.
C32_ThreeNextTrains ==
  Called({"getNextTrains"}) =>
    LET q == req["call"]
        legs == q.resp.trains
        schedule == StaticSchedule(q.endpoint)
        currentMinute == getHours(q.now) * 60 + getMinutes(q.now)
        later == SelectSeq(schedule,
                   LAMBDA train : MinuteOfDay(train.departure) > currentMinute)
        expected == SubSeq(later \o schedule, 1, 3)
    IN  /\ Len(legs) = 3
        /\ \A i \in 1..3 :
             /\ legs[i].departure = expected[i].departure
             /\ legs[i].arrival = expected[i].arrival
             /\ legs[i].platform = expected[i].platform
             /\ legs[i].delay \in 0..9

\* C32 witness: at 21:00 getNextTrains returned for St. Poelten - Linz the
\* last departure of today and the first two of the table, one of them
\* with the longest delay.
C32_Witness ==
  /\ Called({"getNextTrains"})
  /\ req["call"].endpoint = "stpoelten-linz"
  /\ req["call"].now = 21 * 3600000
  /\ LET legs == req["call"].resp.trains
     IN  /\ Len(legs) = 3
         /\ legs[1].departure = <<"2","1",":","4","2">>
         /\ legs[2].departure = <<"0","5",":","4","2">>
         /\ legs[3].departure = <<"0","6",":","4","2">>
         /\ legs[2].delay = 9 /\ legs[3].delay = 0

====
